---- MODULE Spec2Model ----
(***************************************************************************)
(* Validator performance summary of strac (package validators): the epoch *)
(* summary built by EpochSummary from the answers of a beacon node.        *)
(*                                                                         *)
(* phase0.Slot, phase0.Epoch and phase0.ValidatorIndex are uint64.  A      *)
(* uint64 value is represented by its two's-complement residue: a value    *)
(* below 2^63 by itself, a value 2^64 - k (k small) by -k.  Subtraction    *)
(* and decrement are then plain integer arithmetic, int(x) is the          *)
(* identity, and the unsigned comparisons are U64Lt, U64Le, U64Gt.         *)
(***************************************************************************)
EXTENDS Integers, Sequences, FiniteSets, TLC

VARIABLES
    provider,      \* the beacon node's answers (fixed during one run)
    summary,       \* *validatorSummary
    pc,            \* position in EpochSummary
    err,           \* the error returned ("nil" while none)
    votes,         \* votes map[phase0.ValidatorIndex]struct{}
    headersCache,  \* util.BeaconBlockHeaderCache: slot -> entry
    local          \* loop variables of the function being executed

vars == <<provider, summary, pc, err, votes, headersCache, local>>

----------------------------------------------------------------------------
(* Bounds of the model *)

\* SLOTS_PER_EPOCH of the chains summarised
SlotsPerEpoch == 3
\* the validators named by the selectors are 1..NumValidators
NumValidators == 2
\* how far a backward header walk is followed after the slot counter
\* has wrapped from 0 to 2^64-1
MaxWrap == 2

Roots == {"A", "B"}
NoRoot == "-"

----------------------------------------------------------------------------
(* uint64 arithmetic on residues *)

U64Lt(a, b) ==
    IF (a >= 0) = (b >= 0) THEN a < b ELSE a >= 0

U64Le(a, b) == a = b \/ U64Lt(a, b)

U64Gt(a, b) == U64Lt(b, a)

Range(seq) == {seq[i] : i \in 1..Len(seq)}

----------------------------------------------------------------------------
(* chaintime *)

\* chainTime.slotsPerEpoch: SLOTS_PER_EPOCH of the node's spec
slotsPerEpoch == provider.SLOTS_PER_EPOCH

FirstSlotOfEpoch(epoch) == epoch * slotsPerEpoch

LastSlotOfEpoch(epoch) == epoch * slotsPerEpoch + slotsPerEpoch - 1

\* the epoch counted from the end of the slot
SlotToEpochCeil(slot) == (slot + slotsPerEpoch - 1) \div slotsPerEpoch

SlotToEpoch(slot) == slot \div slotsPerEpoch

\* chainTime.CurrentSlot(): the slot of the wall clock when the summary is made
CurrentSlot == provider.currentSlot

CurrentEpoch == CurrentSlot \div slotsPerEpoch

\* chainTime.epochsPerSyncCommitteePeriod: 0 when the node's spec has no
\* EPOCHS_PER_SYNC_COMMITTEE_PERIOD
epochsPerSyncCommitteePeriod == provider.EPOCHS_PER_SYNC_COMMITTEE_PERIOD

\* A time.Time is a count of seconds and of nanoseconds within the second
\* (0 .. 10^9 - 1); a non-negative time.Duration is written the same way.
genesisTime == provider.genesisTime

\* chainTime.slotDuration: SECONDS_PER_SLOT of the node's spec, a whole
\* number of seconds
slotDuration == [sec |-> provider.SECONDS_PER_SLOT, nsec |-> 0]

\* t.Before(u)
Before(t, u) == t.sec < u.sec \/ (t.sec = u.sec /\ t.nsec < u.nsec)

\* t.Sub(u), for u not after t
Sub(t, u) ==
    IF t.nsec >= u.nsec
    THEN [sec |-> t.sec - u.sec, nsec |-> t.nsec - u.nsec]
    ELSE [sec |-> t.sec - u.sec - 1, nsec |-> t.nsec - u.nsec + 10^9]

\* t.Add(d)
Add(t, d) ==
    IF t.nsec + d.nsec < 10^9
    THEN [sec |-> t.sec + d.sec, nsec |-> t.nsec + d.nsec]
    ELSE [sec |-> t.sec + d.sec + 1, nsec |-> t.nsec + d.nsec - 10^9]

\* time.Duration(n) * d, for d of whole seconds
Mul(n, d) == [sec |-> n * d.sec, nsec |-> 0]

RECURSIVE Log2(_)
\* the exponent of the float64 nearest below n: 2^Log2(n) <= n
Log2(n) == IF n < 2 THEN 0 ELSE 1 + Log2(n \div 2)

\* The float64 values between 2^e and 2^(e+1) are 2^(e-52) apart.
\* d.Seconds() is float64(sec) + float64(nsec)/1e9 rounded to the nearest
\* of them: it is sec + 1 when 1 - nsec/1e9 <= 2^(e-53), that is when
\* 10^9 - nsec <= 10^9 / 2^(53-e).  Below 2^23 seconds the quotient is 0.
RoundsToNextSecond(d) ==
    /\ d.sec >= 2^23
    /\ 10^9 - d.nsec <= 10^9 \div 2^(53 - Log2(d.sec))

\* uint64(d.Seconds())
Seconds(d) == IF RoundsToNextSecond(d) THEN d.sec + 1 ELSE d.sec

StartOfSlot(slot) == Add(genesisTime, Mul(slot, slotDuration))

TimestampToSlot(timestamp) ==
    IF Before(timestamp, genesisTime) THEN 0
    ELSE Seconds(Sub(timestamp, genesisTime)) \div Seconds(slotDuration)

----------------------------------------------------------------------------
(* strconv and chaintime.ParseEpoch; a string is the sequence of its
   characters *)

Digit ==
    ("0" :> 0) @@ ("1" :> 1) @@ ("2" :> 2) @@ ("3" :> 3) @@ ("4" :> 4) @@
    ("5" :> 5) @@ ("6" :> 6) @@ ("7" :> 7) @@ ("8" :> 8) @@ ("9" :> 9)

RECURSIVE DecimalValue(_, _)
\* the digits read from the left: n = n*10 + digit
DecimalValue(digits, n) ==
    IF digits = <<>> THEN n
    ELSE DecimalValue(Tail(digits), n * 10 + Digit[Head(digits)])

SyntaxError == [failed |-> TRUE, val |-> 0]

\* strconv.ParseUint(s, 10, 64): digits only, at least one
ParseUint(str) ==
    IF str = <<>> \/ \E i \in 1..Len(str) : str[i] \notin DOMAIN Digit
    THEN SyntaxError
    ELSE [failed |-> FALSE, val |-> DecimalValue(str, 0)]

\* a parse that takes a string it cannot read as 0
ParseIntNoError(str) ==
    IF str = <<>> \/ \E i \in 1..Len(str) : str[i] \notin DOMAIN Digit
    THEN [failed |-> FALSE, val |-> 0]
    ELSE [failed |-> FALSE, val |-> DecimalValue(str, 0)]

\* strconv.ParseInt(s, 10, 64): an optional sign, then as ParseUint
ParseInt(str) ==
    IF str = <<>> THEN SyntaxError
    ELSE LET signed == Head(str) \in {"+", "-"}
             un == ParseUint(IF signed THEN Tail(str) ELSE str)
         IN  IF un.failed THEN SyntaxError
             ELSE [failed |-> FALSE,
                   val |-> IF Head(str) = "-" THEN 0 - un.val ELSE un.val]

\* ParseEpoch without the test of -val against the current epoch
ParseEpochUnclamped(epochStr) ==
    LET parsed == ParseInt(epochStr)
    IN  IF parsed.failed THEN [failed |-> TRUE, epoch |-> 0]
        ELSE IF parsed.val >= 0 THEN [failed |-> FALSE, epoch |-> parsed.val]
        ELSE [failed |-> FALSE, epoch |-> CurrentEpoch + parsed.val]

\* chaintime.ParseEpoch(chainTime, epochStr)
ParseEpoch(epochStr) ==
    CASE epochStr \in {<<>>, <<"c", "u", "r", "r", "e", "n", "t">>,
                       <<"h", "e", "a", "d">>, <<"-", "0">>} ->
             [failed |-> FALSE, epoch |-> CurrentEpoch]
      [] epochStr = <<"l", "a", "s", "t">> ->
             [failed |-> FALSE,
              epoch |-> IF U64Gt(CurrentEpoch, 0) THEN CurrentEpoch - 1 ELSE CurrentEpoch]
      [] OTHER ->
             LET parsed == ParseInt(epochStr)
             IN  IF parsed.failed THEN [failed |-> TRUE, epoch |-> 0]
                 ELSE IF parsed.val >= 0 THEN [failed |-> FALSE, epoch |-> parsed.val]
                 ELSE IF U64Gt(0 - parsed.val, CurrentEpoch)
                 THEN [failed |-> FALSE, epoch |-> 0]
                 ELSE [failed |-> FALSE, epoch |-> CurrentEpoch + parsed.val]

----------------------------------------------------------------------------
(* parseValidators: the expansion of the selectors *)

\* strings.Contains(str, "-")
ContainsDash(str) == \E i \in 1..Len(str) : str[i] = "-"

RECURSIVE Split(_)
\* strings.Split(str, "-"): the parts between the dashes, empty ones too
Split(str) ==
    IF ~ContainsDash(str) THEN <<str>>
    ELSE LET dash == CHOOSE i \in 1..Len(str) :
                         str[i] = "-" /\ \A j \in 1..(i - 1) : str[j] /= "-"
         IN  <<SubSeq(str, 1, dash - 1)>> \o Split(SubSeq(str, dash + 1, Len(str)))

\* for index := low; index <= high; index++: the indices appended
RangeIndices(low, high) == [i \in 1..(high - low + 1) |-> low + (i - 1)]

\* one iteration of the loop over validatorsStr: the error returned or the
\* indices appended
SelectorIndices(selector) ==
    IF ContainsDash(selector)
    THEN LET bits == Split(selector)
         IN  IF Len(bits) /= 2
             THEN [err |-> "invalid range", indices |-> <<>>]
             ELSE IF ParseUint(bits[1]).failed
             THEN [err |-> "invalid range start", indices |-> <<>>]
             ELSE IF ParseUint(bits[2]).failed
             THEN [err |-> "invalid range end", indices |-> <<>>]
             ELSE [err |-> "nil",
                   indices |-> RangeIndices(ParseUint(bits[1]).val, ParseUint(bits[2]).val)]
    ELSE IF ParseUint(selector).failed
    THEN [err |-> "failed to parse validator", indices |-> <<>>]
    ELSE [err |-> "nil", indices |-> <<ParseUint(selector).val>>]

RECURSIVE IndicesFrom(_, _)
\* the loop over validatorsStr[i..]: the first error, or all indices in the
\* order of the selectors, duplicates kept
IndicesFrom(validatorsStr, i) ==
    IF i > Len(validatorsStr) THEN [err |-> "nil", indices |-> <<>>]
    ELSE LET this == SelectorIndices(validatorsStr[i])
             rest == IndicesFrom(validatorsStr, i + 1)
         IN  IF this.err /= "nil" THEN this
             ELSE IF rest.err /= "nil" THEN rest
             ELSE [err |-> "nil", indices |-> this.indices \o rest.indices]

----------------------------------------------------------------------------
(* Answers of the beacon node *)

NotFound == [kind |-> "notfound", Attestations |-> <<>>]
QueryError == [kind |-> "error", Attestations |-> <<>>]
NilBlock == [kind |-> "nil", Attestations |-> <<>>]
Block(atts) == [kind |-> "block", Attestations |-> atts]

\* blocksProvider.SignedBeaconBlock for Block: "<slot>"
BlockAt(slot) ==
    IF slot \in DOMAIN provider.blocks THEN provider.blocks[slot] ELSE NotFound

NoHeader == [kind |-> "notfound", Root |-> NoRoot, Canonical |-> FALSE]
HeaderError == [kind |-> "error", Root |-> NoRoot, Canonical |-> FALSE]
Header(root, canonical) == [kind |-> "header", Root |-> root, Canonical |-> canonical]

\* beaconBlockHeadersProvider.BeaconBlockHeader for Block: "<slot>"
HeaderAt(slot) ==
    IF slot \in DOMAIN provider.headers THEN provider.headers[slot] ELSE NoHeader

----------------------------------------------------------------------------
(* EpochSummary, up to the duty processing *)

ZeroAttestations ==
    [Expected |-> 0, Included |-> 0, CorrectHead |-> 0, TimelyHead |-> 0,
     CorrectTarget |-> 0, TimelyTarget |-> 0, TimelySource |-> 0]

\* the summary as EpochSummary has built it when processProposerDuties is
\* called: epoch resolved, slot buckets allocated, validators sorted by index
NewSummary(epoch, validators) ==
    LET first == FirstSlotOfEpoch(epoch)
        last == FirstSlotOfEpoch(epoch + 1) - 1
    IN  [Epoch |-> epoch,
         Validators |-> validators,
         FirstSlot |-> first,
         LastSlot |-> last,
         ActiveValidators |-> 0,
         ParticipatingValidators |-> 0,
         NonParticipatingValidators |-> <<>>,
         IncorrectHeadValidators |-> <<>>,
         UntimelyHeadValidators |-> <<>>,
         UntimelySourceValidators |-> <<>>,
         IncorrectTargetValidators |-> <<>>,
         UntimelyTargetValidators |-> <<>>,
         Slots |-> [i \in 1..(1 + last - first) |->
                      [Slot |-> first + (i - 1), Attestations |-> ZeroAttestations]],
         Proposals |-> <<>>]

\* the keys of validatorsByIndex
validatorsByIndex == {summary.Validators[i].Index : i \in 1..Len(summary.Validators)}

NoLocal == [dutyIndex |-> 0]

\* EpochSummary up to the call of parseValidators: the epoch is resolved
\* and the slot buckets are allocated
ResolveEpoch ==
    /\ pc = "start"
    /\ LET resolved == ParseEpoch(local.epoch)
       IN  IF resolved.failed
           THEN /\ err' = "failed to parse epoch"
                /\ pc' = "failed"
                /\ UNCHANGED summary
           ELSE /\ summary' = NewSummary(resolved.epoch, <<>>)
                /\ pc' = "validators"
                /\ UNCHANGED err
    /\ UNCHANGED <<provider, votes, headersCache, local>>

\* validatorsProvider.Validators for the indices: response.Data, a map from
\* index to validator, holds the validators of the state with these
\* indices; an empty list of indices is no filter, and the node answers
\* with all validators of the state or with none
ValidatorsResponse(indices) ==
    LET known == provider.validators.Data
    IN  IF indices = <<>>
        THEN {{known[i] : i \in DOMAIN known}, {}}
        ELSE {{known[i] : i \in Range(indices) \cap DOMAIN known}}

RECURSIVE Orderings(_)
\* the orders in which a loop over the map can visit its entries
Orderings(data) ==
    IF data = {} THEN {<<>>}
    ELSE UNION {{<<v>> \o rest : rest \in Orderings(data \ {v})} : v \in data}

\* the validators left in the order of the loop over the map
Unsorted(list) == list

\* the validator put behind the ones already sorted, whatever its index
InsertLast(sorted, validator) == Append(sorted, validator)

RECURSIVE InsertByIndex(_, _)
InsertByIndex(sorted, validator) ==
    IF sorted = <<>> THEN <<validator>>
    ELSE IF validator.Index < Head(sorted).Index THEN <<validator>> \o sorted
    ELSE <<Head(sorted)>> \o InsertByIndex(Tail(sorted), validator)

RECURSIVE SortByIndex(_)
\* sort.Slice(summary.Validators, Index ascending)
SortByIndex(list) ==
    IF list = <<>> THEN <<>>
    ELSE InsertByIndex(SortByIndex(Tail(list)), Head(list))

\* parseValidators and the sort of its result
ParseValidators ==
    /\ pc = "validators"
    /\ LET parsed == IndicesFrom(local.validatorsStr, 1)
       IN  IF parsed.err /= "nil"
           THEN /\ err' = parsed.err
                /\ pc' = "failed"
                /\ UNCHANGED summary
           ELSE IF provider.validators.kind = "error"
           THEN /\ err' = "failed to obtain validators"
                /\ pc' = "failed"
                /\ UNCHANGED summary
           ELSE /\ \E data \in ValidatorsResponse(parsed.indices) :
                     \E order \in Orderings(data) :
                         summary' = [summary EXCEPT !.Validators = SortByIndex(order)]
                /\ pc' = "proposer"
                /\ UNCHANGED err
    /\ UNCHANGED <<provider, votes, headersCache, local>>

----------------------------------------------------------------------------
(* processProposerDuties *)

\* pdProvider.ProposerDuties fails
ProposerDutiesFailed ==
    /\ pc = "proposer"
    /\ provider.proposerDuties.kind = "error"
    /\ err' = "failed to obtain proposer duties"
    /\ pc' = "failed"
    /\ UNCHANGED <<provider, summary, votes, headersCache, local>>

\* pdProvider.ProposerDuties answers: enter the loop over response.Data
ProposerDutiesObtained ==
    /\ pc = "proposer"
    /\ provider.proposerDuties.kind = "ok"
    /\ pc' = "proposer_loop"
    /\ local' = [dutyIndex |-> 1]
    /\ UNCHANGED <<provider, summary, err, votes, headersCache>>

\* a failed block query taken as no duty
ProposerDutyOutcomeLenient(duty) ==
    IF duty.ValidatorIndex \notin validatorsByIndex THEN "continue"
    ELSE LET answer == BlockAt(duty.Slot)
         IN  IF answer.kind = "notfound" THEN "return nil"
             ELSE IF answer.kind = "error" THEN "continue"
             ELSE "append"

\* what one iteration of the loop over the duties does with a duty
ProposerDutyOutcome(duty) ==
    IF duty.ValidatorIndex \notin validatorsByIndex THEN "continue"
    ELSE LET answer == BlockAt(duty.Slot)
         IN  IF answer.kind = "notfound" THEN "return nil"
             ELSE IF answer.kind = "error" THEN "return err"
             ELSE "append"

\* one iteration of the loop over response.Data, or the return after it
ProposerDuty ==
    /\ pc = "proposer_loop"
    /\ LET response == provider.proposerDuties.Data
           i == local.dutyIndex
       IN  IF i > Len(response)
           THEN /\ pc' = "attester"
                /\ UNCHANGED <<summary, err, local>>
           ELSE LET duty == response[i]
                    outcome == ProposerDutyOutcome(duty)
                IN  CASE outcome = "continue" ->
                           /\ local' = [local EXCEPT !.dutyIndex = i + 1]
                           /\ UNCHANGED <<summary, err, pc>>
                      [] outcome = "return nil" ->
                           /\ pc' = "attester"
                           /\ UNCHANGED <<summary, err, local>>
                      [] outcome = "return err" ->
                           /\ err' = "failed to obtain block"
                           /\ pc' = "failed"
                           /\ UNCHANGED <<summary, local>>
                      [] outcome = "append" ->
                           /\ summary' = [summary EXCEPT !.Proposals =
                                 Append(@, [Slot |-> duty.Slot,
                                            Proposer |-> duty.ValidatorIndex,
                                            Block |-> BlockAt(duty.Slot).kind = "block"])]
                           /\ local' = [local EXCEPT !.dutyIndex = i + 1]
                           /\ UNCHANGED <<err, pc>>
    /\ UNCHANGED <<provider, votes, headersCache>>

----------------------------------------------------------------------------
(* util.BeaconBlockHeaderCache *)

\* a Fetch that asks the node every time and keeps nothing
FetchUncached(cache, slot) ==
    LET answer == HeaderAt(slot)
    IN  [failed |-> answer.kind = "error", header |-> answer, cache |-> cache]

\* Fetch: the entry of the slot, resolved by one header query on a miss and
\* kept; a not-found answer is kept as an absent entry, another failure is
\* returned and nothing is kept
Fetch(cache, slot) ==
    IF slot \in DOMAIN cache
    THEN [failed |-> FALSE, header |-> cache[slot], cache |-> cache]
    ELSE LET answer == HeaderAt(slot)
         IN  IF answer.kind = "error"
             THEN [failed |-> TRUE, header |-> answer, cache |-> cache]
             ELSE [failed |-> FALSE, header |-> answer,
                   cache |-> cache @@ (slot :> answer)]

----------------------------------------------------------------------------
(* processAttesterDuties: set-up *)

RECURSIVE ActiveIndicesUntilExit(_, _, _)
\* a validator taken as active in its exit epoch too
ActiveIndicesUntilExit(validators, i, epoch) ==
    IF i > Len(validators) THEN <<>>
    ELSE (IF /\ U64Le(validators[i].ActivationEpoch, epoch)
             /\ U64Le(epoch, validators[i].ExitEpoch)
          THEN <<validators[i].Index>>
          ELSE <<>>) \o ActiveIndicesUntilExit(validators, i + 1, epoch)

RECURSIVE ActiveIndicesFrom(_, _, _)
\* getActiveValidators: the indices of validators[i..] active in the epoch,
\* in the order of summary.Validators
ActiveIndicesFrom(validators, i, epoch) ==
    IF i > Len(validators) THEN <<>>
    ELSE (IF /\ U64Le(validators[i].ActivationEpoch, epoch)
             /\ U64Gt(validators[i].ExitEpoch, epoch)
          THEN <<validators[i].Index>>
          ELSE <<>>) \o ActiveIndicesFrom(validators, i + 1, epoch)

getActiveValidators(s) == ActiveIndicesFrom(s.Validators, 1, s.Epoch)

\* the options of the attester duties query
AttesterDutiesOpts ==
    [Epoch |-> summary.Epoch, Indices |-> getActiveValidators(summary)]

\* the attester duties the node returns for the active validators
duties == provider.attesterDuties.Data

RECURSIVE DutiesFrom(_, _, _)
\* dutiesBySlot[slot][committee]: the duties of that slot and committee, in
\* the order of the response, from position i on
DutiesFrom(i, slot, committee) ==
    IF i > Len(duties) THEN <<>>
    ELSE (IF duties[i].Slot = slot /\ duties[i].CommitteeIndex = committee
          THEN <<duties[i]>>
          ELSE <<>>) \o DutiesFrom(i + 1, slot, committee)

dutiesBySlot(slot, committee) == DutiesFrom(1, slot, committee)

\* the validators that are keys of dutiesByValidatorIndex
DutyValidators == {duties[i].ValidatorIndex : i \in 1..Len(duties)}

\* dutiesByValidatorIndex[index]: the last duty of the response for the validator
dutiesByValidatorIndex(index) ==
    LET last == CHOOSE i \in 1..Len(duties) :
                    /\ duties[i].ValidatorIndex = index
                    /\ \A j \in (i + 1)..Len(duties) : duties[j].ValidatorIndex /= index
    IN  duties[last]

\* Expected counted once for a slot with duties, however many
ExpectedOnce(slot) ==
    IF \E i \in 1..Len(duties) : duties[i].Slot = slot THEN 1 ELSE 0

\* Expected of the bucket of a slot: one for every duty of the slot
ExpectedAt(slot) == Cardinality({i \in 1..Len(duties) : duties[i].Slot = slot})

NoData == [Slot |-> 0, Index |-> 0, BeaconBlockRoot |-> NoRoot,
           Target |-> [Epoch |-> 0, Root |-> NoRoot]]

NoFault == [Validator |-> 0, AttestationData |-> NoData, InclusionDistance |-> 0]

\* attesterDutiesProvider.AttesterDuties fails
AttesterDutiesFailed ==
    /\ pc = "attester"
    /\ provider.attesterDuties.kind = "error"
    /\ err' = "failed to obtain attester duties"
    /\ pc' = "failed"
    /\ UNCHANGED <<provider, summary, votes, headersCache, local>>

\* the end of the window taken as the first slot of the next-but-one epoch,
\* whatever the current slot
lastSlotOfWindowUnclamped(epoch) == FirstSlotOfEpoch(epoch + 2)

\* lastSlot: the first slot of the next-but-one epoch, or the current slot
\* when that is earlier
lastSlotOfWindow(epoch) ==
    IF U64Gt(FirstSlotOfEpoch(epoch + 2), CurrentSlot)
    THEN CurrentSlot
    ELSE FirstSlotOfEpoch(epoch + 2)

\* the inclusion window, the duties, the slot buckets, the fresh cache, the
\* empty fault lists and vote set
AttesterStart ==
    /\ pc = "attester"
    /\ provider.attesterDuties.kind = "ok"
    /\ LET firstSlot == FirstSlotOfEpoch(summary.Epoch) + 1
           lastSlot == lastSlotOfWindow(summary.Epoch)
       IN  /\ summary' = [summary EXCEPT
                 !.Slots = [i \in DOMAIN @ |->
                     [@[i] EXCEPT !.Attestations =
                         [ZeroAttestations EXCEPT !.Expected = ExpectedAt(summary.Slots[i].Slot)]]],
                 !.IncorrectHeadValidators = <<>>,
                 !.UntimelyHeadValidators = <<>>,
                 !.UntimelySourceValidators = <<>>,
                 !.IncorrectTargetValidators = <<>>,
                 !.UntimelyTargetValidators = <<>>]
           /\ local' = [activeValidatorIndices |-> getActiveValidators(summary),
                        lastSlot |-> lastSlot,
                        slot |-> firstSlot,
                        attestation |-> 0,
                        duty |-> 0,
                        inclusionDelay |-> 0,
                        fault |-> NoFault,
                        walk |-> 0,
                        headCorrect |-> FALSE,
                        targetCorrect |-> FALSE]
    /\ votes' = {}
    /\ headersCache' = <<>>
    /\ pc' = "scan"
    /\ UNCHANGED <<provider, err>>

----------------------------------------------------------------------------
(* processAttesterDuties: the scan of the inclusion window *)

\* processAttesterDutiesSlot returns nil: the loop over the window goes on
NextSlot == local' = [local EXCEPT !.slot = @ + 1, !.attestation = 0, !.duty = 0]

\* a block that is not found taken as a failed query
BlockOutcomeStrict(answer) ==
    IF answer.kind = "block" THEN "attestations" ELSE "return err"

\* what processAttesterDutiesSlot does with the answer to its block query:
\* a 404 is no block at the slot
BlockOutcome(answer) ==
    IF answer.kind = "notfound" THEN "return nil"
    ELSE IF answer.kind = "error" THEN "return err"
    ELSE "attestations"

\* the head of the loop over the window and the block query of
\* processAttesterDutiesSlot
ScanSlot ==
    /\ pc = "scan"
    /\ IF ~U64Le(local.slot, local.lastSlot)
       THEN /\ pc' = "nonparticipating"
            /\ UNCHANGED <<err, local>>
       ELSE LET outcome == BlockOutcome(BlockAt(local.slot))
            IN  CASE outcome = "return nil" ->
                       /\ NextSlot
                       /\ UNCHANGED <<err, pc>>
                  [] outcome = "return err" ->
                       /\ err' = "failed to obtain beacon block"
                       /\ pc' = "failed"
                       /\ UNCHANGED local
                  [] outcome = "attestations" ->
                       /\ pc' = "attestation"
                       /\ local' = [local EXCEPT !.attestation = 1]
                       /\ UNCHANGED err
    /\ UNCHANGED <<provider, summary, votes, headersCache>>

\* the attestation the loop over the block's attestations is at
attestation == BlockAt(local.slot).Attestations[local.attestation]

\* the head of the loop over the attestations of the block: the attestation
\* is skipped when no duty is known for its slot and committee
Attestation ==
    /\ pc = "attestation"
    /\ IF local.attestation > Len(BlockAt(local.slot).Attestations)
       THEN /\ NextSlot
            /\ pc' = "scan"
       ELSE IF dutiesBySlot(attestation.Data.Slot, attestation.Data.Index) = <<>>
       THEN /\ local' = [local EXCEPT !.attestation = @ + 1]
            /\ UNCHANGED pc
       ELSE /\ local' = [local EXCEPT !.duty = 1]
            /\ pc' = "duty"
    /\ UNCHANGED <<provider, summary, err, votes, headersCache>>

\* the duty the loop over the duties of the attestation's committee is at
duty == dutiesBySlot(attestation.Data.Slot, attestation.Data.Index)[local.duty]

\* every validator of the committee taken as having voted
BitAtAny(att, position) == att.AggregationBits /= {}

\* AggregationBits.BitAt(duty.ValidatorCommitteeIndex)
BitAt(att, position) == position \in att.AggregationBits

\* the check for a vote counted already left out
IsNewVoteUnchecked(att, d) == BitAt(att, d.ValidatorCommitteeIndex)

\* the vote of the duty's validator is in the attestation and not yet counted
IsNewVote(att, d) ==
    /\ BitAt(att, d.ValidatorCommitteeIndex)
    /\ d.ValidatorIndex \notin votes

\* the loop over the duties of the committee: a duty whose bit is unset or
\* whose validator has voted already is passed over; after the last duty
\* the scan of the block ends once every active validator has voted
DutyLoop ==
    /\ pc = "duty"
    /\ IF local.duty > Len(dutiesBySlot(attestation.Data.Slot, attestation.Data.Index))
       THEN IF Cardinality(votes) = Len(local.activeValidatorIndices)
            THEN /\ NextSlot
                 /\ pc' = "scan"
            ELSE /\ local' = [local EXCEPT !.attestation = @ + 1, !.duty = 0]
                 /\ pc' = "attestation"
       ELSE /\ ~IsNewVote(attestation, duty)
            /\ local' = [local EXCEPT !.duty = @ + 1]
            /\ UNCHANGED pc
    /\ UNCHANGED <<provider, summary, err, votes, headersCache>>

\* inclusionDelay := slot - duty.Slot
InclusionDelay(slot, d) == slot - d.Slot

\* the vote is counted: vote set, Included of the attested slot's bucket,
\* inclusion delay and fault record
RecordVote ==
    /\ pc = "duty"
    /\ local.duty <= Len(dutiesBySlot(attestation.Data.Slot, attestation.Data.Index))
    /\ IsNewVote(attestation, duty)
    /\ votes' = votes \cup {duty.ValidatorIndex}
    /\ LET index == attestation.Data.Slot - FirstSlotOfEpoch(summary.Epoch)
           inclusionDelay == InclusionDelay(local.slot, duty)
       IN  /\ summary' = [summary EXCEPT !.Slots[index + 1].Attestations.Included = @ + 1]
           /\ local' = [local EXCEPT
                 !.inclusionDelay = inclusionDelay,
                 !.fault = [Validator |-> duty.ValidatorIndex,
                            AttestationData |-> attestation.Data,
                            InclusionDistance |-> inclusionDelay],
                 !.walk = attestation.Data.Slot]
    /\ pc' = "head"
    /\ UNCHANGED <<provider, err, headersCache>>

----------------------------------------------------------------------------
(* Classification of a counted vote *)

\* head: lines 572-584
ClassifyHead(s, index, fault, inclusionDelay, headCorrect) ==
    IF headCorrect
    THEN LET s1 == [s EXCEPT !.Slots[index + 1].Attestations.CorrectHead = @ + 1]
         IN  IF inclusionDelay = 1
             THEN [s1 EXCEPT !.Slots[index + 1].Attestations.TimelyHead = @ + 1]
             ELSE [s1 EXCEPT !.UntimelyHeadValidators = Append(@, fault)]
    ELSE LET s1 == [s EXCEPT !.IncorrectHeadValidators = Append(@, fault)]
         IN  IF U64Gt(inclusionDelay, 1)
             THEN [s1 EXCEPT !.UntimelyHeadValidators = Append(@, fault)]
             ELSE s1

\* source with the limit excluded: inclusionDelay < 5
ClassifySourceStrict(s, index, fault, inclusionDelay) ==
    IF U64Lt(inclusionDelay, 5)
    THEN [s EXCEPT !.Slots[index + 1].Attestations.TimelySource = @ + 1]
    ELSE [s EXCEPT !.UntimelySourceValidators = Append(@, fault)]

\* source with a late vote left out of UntimelySourceValidators
ClassifySourceSilent(s, index, fault, inclusionDelay) ==
    IF U64Le(inclusionDelay, 5)
    THEN [s EXCEPT !.Slots[index + 1].Attestations.TimelySource = @ + 1]
    ELSE s

\* source: lines 586-590
ClassifySource(s, index, fault, inclusionDelay) ==
    IF U64Le(inclusionDelay, 5)
    THEN [s EXCEPT !.Slots[index + 1].Attestations.TimelySource = @ + 1]
    ELSE [s EXCEPT !.UntimelySourceValidators = Append(@, fault)]

\* target with the limit of the incorrect branch excluded from the timely side
ClassifyTargetStrict(s, index, fault, inclusionDelay, targetCorrect) ==
    IF targetCorrect
    THEN LET s1 == [s EXCEPT !.Slots[index + 1].Attestations.CorrectTarget = @ + 1]
         IN  IF U64Le(inclusionDelay, 32)
             THEN [s1 EXCEPT !.Slots[index + 1].Attestations.TimelyTarget = @ + 1]
             ELSE [s1 EXCEPT !.UntimelyTargetValidators = Append(@, fault)]
    ELSE LET s1 == [s EXCEPT !.IncorrectTargetValidators = Append(@, fault)]
         IN  IF U64Gt(inclusionDelay, 31)
             THEN [s1 EXCEPT !.UntimelyTargetValidators = Append(@, fault)]
             ELSE s1

\* target: lines 596-608
ClassifyTarget(s, index, fault, inclusionDelay, targetCorrect) ==
    IF targetCorrect
    THEN LET s1 == [s EXCEPT !.Slots[index + 1].Attestations.CorrectTarget = @ + 1]
         IN  IF U64Le(inclusionDelay, 32)
             THEN [s1 EXCEPT !.Slots[index + 1].Attestations.TimelyTarget = @ + 1]
             ELSE [s1 EXCEPT !.UntimelyTargetValidators = Append(@, fault)]
    ELSE LET s1 == [s EXCEPT !.IncorrectTargetValidators = Append(@, fault)]
         IN  IF U64Gt(inclusionDelay, 32)
             THEN [s1 EXCEPT !.UntimelyTargetValidators = Append(@, fault)]
             ELSE s1

----------------------------------------------------------------------------
(* AttestationHeadCorrect and AttestationTargetCorrect *)

\* the walk with the check of header.Canonical left out
WalkOutcomeAnyHeader(fetch) ==
    IF fetch.failed THEN "return err"
    ELSE IF fetch.header.kind = "notfound" THEN "slot--"
    ELSE "return"

\* what one iteration of the backward walk does with the result of Fetch
WalkOutcome(fetch) ==
    IF fetch.failed THEN "return err"
    ELSE IF fetch.header.kind = "notfound" THEN "slot--"
    ELSE IF ~fetch.header.Canonical THEN "slot--"
    ELSE "return"

\* one iteration of the loop of AttestationHeadCorrect; on its return the
\* head and the source of the vote are classified
HeadWalk ==
    /\ pc = "head"
    /\ local.walk >= -MaxWrap
    /\ LET fetch == Fetch(headersCache, local.walk)
           outcome == WalkOutcome(fetch)
           index == attestation.Data.Slot - FirstSlotOfEpoch(summary.Epoch)
       IN  CASE outcome = "return err" ->
                  /\ err' = "failed to calculate if attestation had correct head vote"
                  /\ pc' = "failed"
                  /\ UNCHANGED <<summary, headersCache, local>>
             [] outcome = "slot--" ->
                  /\ local' = [local EXCEPT !.walk = @ - 1]
                  /\ headersCache' = fetch.cache
                  /\ UNCHANGED <<summary, err, pc>>
             [] outcome = "return" ->
                  /\ summary' =
                        ClassifySource(
                            ClassifyHead(summary, index, local.fault, local.inclusionDelay,
                                         fetch.header.Root = attestation.Data.BeaconBlockRoot),
                            index, local.fault, local.inclusionDelay)
                  /\ headersCache' = fetch.cache
                  /\ local' = [local EXCEPT
                        !.headCorrect = fetch.header.Root = attestation.Data.BeaconBlockRoot,
                        !.walk = FirstSlotOfEpoch(attestation.Data.Target.Epoch)]
                  /\ pc' = "target"
                  /\ UNCHANGED err
    /\ UNCHANGED <<provider, votes>>

\* one iteration of the loop of AttestationTargetCorrect; on its return the
\* target of the vote is classified and the loop over the duties goes on
TargetWalk ==
    /\ pc = "target"
    /\ local.walk >= -MaxWrap
    /\ LET fetch == Fetch(headersCache, local.walk)
           outcome == WalkOutcome(fetch)
           index == attestation.Data.Slot - FirstSlotOfEpoch(summary.Epoch)
       IN  CASE outcome = "return err" ->
                  /\ err' = "failed to calculate if attestation had correct target vote"
                  /\ pc' = "failed"
                  /\ UNCHANGED <<summary, headersCache, local>>
             [] outcome = "slot--" ->
                  /\ local' = [local EXCEPT !.walk = @ - 1]
                  /\ headersCache' = fetch.cache
                  /\ UNCHANGED <<summary, err, pc>>
             [] outcome = "return" ->
                  /\ summary' =
                        ClassifyTarget(summary, index, local.fault, local.inclusionDelay,
                                       fetch.header.Root = attestation.Data.Target.Root)
                  /\ headersCache' = fetch.cache
                  /\ local' = [local EXCEPT
                        !.targetCorrect = fetch.header.Root = attestation.Data.Target.Root,
                        !.duty = @ + 1]
                  /\ pc' = "duty"
                  /\ UNCHANGED err
    /\ UNCHANGED <<provider, votes>>

----------------------------------------------------------------------------
(* processAttesterDuties: non-participation and counts *)

\* the comparison without the committee
LessNoCommittee(a, b) ==
    IF a.Slot /= b.Slot THEN a.Slot < b.Slot
    ELSE a.Validator < b.Validator

\* the comparison of the sort of NonParticipatingValidators
Less(a, b) ==
    IF a.Slot /= b.Slot THEN a.Slot < b.Slot
    ELSE IF a.Committee /= b.Committee THEN a.Committee < b.Committee
    ELSE a.Validator < b.Validator

RECURSIVE Insert(_, _)
Insert(sorted, x) ==
    IF sorted = <<>> THEN <<x>>
    ELSE IF Less(x, Head(sorted)) THEN <<x>> \o sorted
    ELSE <<Head(sorted)>> \o Insert(Tail(sorted), x)

RECURSIVE SortByLess(_)
\* sort.Slice with Less
SortByLess(list) ==
    IF list = <<>> THEN <<>>
    ELSE Insert(SortByLess(Tail(list)), Head(list))

RECURSIVE NonVotersFrom(_, _)
\* the loop over activeValidatorIndices: an entry for every index without a vote
NonVotersFrom(indices, i) ==
    IF i > Len(indices) THEN <<>>
    ELSE (IF indices[i] \notin votes
          THEN <<[Validator |-> indices[i],
                  Slot |-> dutiesByValidatorIndex(indices[i]).Slot,
                  Committee |-> dutiesByValidatorIndex(indices[i]).CommitteeIndex]>>
          ELSE <<>>) \o NonVotersFrom(indices, i + 1)

\* an active validator without a vote has no entry in dutiesByValidatorIndex:
\* duty is nil and duty.Slot is a nil pointer dereference
NilDuty ==
    \E i \in 1..Len(local.activeValidatorIndices) :
        /\ local.activeValidatorIndices[i] \notin votes
        /\ local.activeValidatorIndices[i] \notin DutyValidators

NonParticipating ==
    /\ pc = "nonparticipating"
    /\ IF NilDuty
       THEN /\ pc' = "panic"
            /\ UNCHANGED summary
       ELSE /\ summary' = [summary EXCEPT
                 !.NonParticipatingValidators =
                     SortByLess(NonVotersFrom(local.activeValidatorIndices, 1)),
                 !.ActiveValidators = Cardinality(Range(local.activeValidatorIndices)),
                 !.ParticipatingValidators = Cardinality(votes)]
            /\ pc' = "done"
    /\ UNCHANGED <<provider, err, votes, headersCache, local>>

NextAttester ==
    \/ AttesterDutiesFailed
    \/ AttesterStart
    \/ ScanSlot
    \/ Attestation
    \/ DutyLoop
    \/ RecordVote
    \/ HeadWalk
    \/ TargetWalk
    \/ NonParticipating

----------------------------------------------------------------------------
(* Specification of processProposerDuties alone *)

\* epochs summarised are 0..MaxEpoch
MaxEpoch == 1
\* proposer indices the node may name are 1..NumValidators+1; the last is
\* not one of the selected validators
ProposerIndices == 1..(NumValidators + 1)

EpochSlots(epoch) == (epoch * SlotsPerEpoch)..((epoch + 1) * SlotsPerEpoch - 1)

\* the selected validators as the node reports them, sorted by index
ValidatorRecords(activation, exit) ==
    [i \in 1..NumValidators |->
        [Index |-> i, ActivationEpoch |-> activation[i], ExitEpoch |-> exit[i]]]

AllActive == ValidatorRecords([i \in 1..NumValidators |-> 0],
                              [i \in 1..NumValidators |-> MaxEpoch + 3])

\* one proposer duty for every slot of the epoch, in slot order
ProposerDutiesOf(epoch, proposer) ==
    [i \in 1..SlotsPerEpoch |->
        [Slot |-> epoch * SlotsPerEpoch + (i - 1),
         ValidatorIndex |-> proposer[epoch * SlotsPerEpoch + (i - 1)]]]

NoDuties == [kind |-> "ok", Data |-> <<>>]

InitProposer ==
    /\ \E epoch \in 0..MaxEpoch :
         /\ \E proposer \in [EpochSlots(epoch) -> ProposerIndices],
               answers \in [EpochSlots(epoch) -> {NotFound, QueryError, NilBlock, Block(<<>>)}],
               kind \in {"ok", "error"} :
              provider = [SLOTS_PER_EPOCH |-> SlotsPerEpoch,
                          proposerDuties |->
                              [kind |-> kind,
                               Data |-> IF kind = "ok"
                                        THEN ProposerDutiesOf(epoch, proposer)
                                        ELSE <<>>],
                          attesterDuties |-> NoDuties,
                          blocks |-> answers,
                          headers |-> <<>>,
                          currentSlot |-> 0]
         /\ summary = NewSummary(epoch, AllActive)
    /\ pc = "proposer"
    /\ err = "nil"
    /\ votes = {}
    /\ headersCache = <<>>
    /\ local = NoLocal

NextProposer ==
    \/ ProposerDutiesFailed
    \/ ProposerDutiesObtained
    \/ ProposerDuty

SpecProposer == InitProposer /\ [][NextProposer]_vars

----------------------------------------------------------------------------
(* Specification of the header walks: processAttesterDuties of epoch 1 with
   one vote, over the header answers of the slots up to the vote's slot *)

Attestation1(slot, committee, bits, root, targetEpoch, targetRoot) ==
    [AggregationBits |-> bits,
     Data |-> [Slot |-> slot, Index |-> committee, BeaconBlockRoot |-> root,
               Target |-> [Epoch |-> targetEpoch, Root |-> targetRoot]]]

AttesterDuty(validator, slot, committee) ==
    [ValidatorIndex |-> validator, Slot |-> slot, CommitteeIndex |-> committee,
     ValidatorCommitteeIndex |-> validator]

\* the state in which EpochSummary calls processAttesterDuties
AtAttester(epoch, validators, answers) ==
    /\ provider = answers
    /\ summary = NewSummary(epoch, validators)
    /\ pc = "attester"
    /\ err = "nil"
    /\ votes = {}
    /\ headersCache = <<>>
    /\ local = NoLocal

\* the node fails the attester duties query
FailingNode ==
    [SLOTS_PER_EPOCH |-> SlotsPerEpoch,
     proposerDuties |-> NoDuties,
     attesterDuties |-> [kind |-> "error", Data |-> <<>>],
     blocks |-> <<>>,
     headers |-> <<>>,
     currentSlot |-> 0]

WalkHeaders == {NoHeader, Header("A", TRUE), Header("B", TRUE), Header("B", FALSE)}

InitWalk ==
    LET first == SlotsPerEpoch
    IN  \/ AtAttester(1, AllActive, FailingNode)
        \/ \E slot \in {first, first + 1}, root \in Roots, targetRoot \in Roots,
              below \in [0..first -> WalkHeaders],
              top \in {NoHeader, Header("A", TRUE), HeaderError} :
             AtAttester(1, AllActive,
                 [SLOTS_PER_EPOCH |-> SlotsPerEpoch,
                  proposerDuties |-> NoDuties,
                  attesterDuties |->
                      [kind |-> "ok",
                       Data |-> [v \in 1..NumValidators |->
                                   AttesterDuty(v, IF v = 1 THEN slot ELSE first, 0)]],
                  blocks |-> (slot + 1) :>
                      Block(<<Attestation1(slot, 0, {1}, root, 1, targetRoot)>>),
                  headers |-> IF slot = first
                              THEN [below EXCEPT ![first] =
                                       IF top = HeaderError THEN top ELSE @]
                              ELSE below @@ ((first + 1) :> top),
                  currentSlot |-> 3 * SlotsPerEpoch])

SpecWalk == InitWalk /\ [][NextAttester]_vars

----------------------------------------------------------------------------
(* Specification of processAttesterDuties of epoch 1 *)

\* a chain whose slots 0..last all have a canonical block with root "A"
CanonicalChain(last) == [s \in 0..last |-> Header("A", TRUE)]

RootPairs == {<<"A", "A">>, <<"B", "A">>, <<"A", "B">>}

\* One validator's vote occurs once or twice in the inclusion window, in
\* one block or in two, the second block possibly failing; the validator's
\* duty is at any slot of the epoch, also after the including block.
InitVotes ==
    LET first == SlotsPerEpoch
        window == (first + 1)..(first + 2 * SlotsPerEpoch)
    IN  \E ds \in 0..(SlotsPerEpoch - 1), b1 \in window, b2 \in window,
           p1 \in RootPairs, p2 \in RootPairs, second \in {"vote", "error", "none"} :
          /\ b1 <= b2
          /\ LET att1 == Attestation1(first + ds, 0, {1}, p1[1], 1, p1[2])
                 att2 == Attestation1(first + ds, 0, {1}, p2[1], 1, p2[2])
                 blocks ==
                     IF b1 = b2
                     THEN b1 :> Block(IF second = "vote" THEN <<att1, att2>> ELSE <<att1>>)
                     ELSE (b1 :> Block(<<att1>>)) @@
                          (IF second = "vote" THEN b2 :> Block(<<att2>>)
                           ELSE IF second = "error" THEN b2 :> QueryError
                           ELSE <<>>)
             IN  AtAttester(1, AllActive,
                     [SLOTS_PER_EPOCH |-> SlotsPerEpoch,
                      proposerDuties |-> NoDuties,
                      attesterDuties |->
                          [kind |-> "ok",
                           Data |-> [v \in 1..NumValidators |->
                                       AttesterDuty(v, IF v = 1 THEN first + ds ELSE first, 0)]],
                      blocks |-> blocks,
                      headers |-> CanonicalChain(2 * SlotsPerEpoch - 1),
                      currentSlot |-> 3 * SlotsPerEpoch])

\* Every validator but possibly the last is active and has a duty at a slot
\* of the epoch; a set of validators votes, each in the block of the slot
\* after its duty, which also holds an attestation of a committee without
\* duties.
InitParticipation ==
    LET first == SlotsPerEpoch
        far == MaxEpoch + 3
    IN  \E status \in {"active", "exited", "pending"},
           ds \in [1..NumValidators -> 0..(SlotsPerEpoch - 1)],
           c1 \in {0, 1}, voters \in SUBSET (1..NumValidators), hasDuty \in BOOLEAN :
          LET validators ==
                  ValidatorRecords(
                      [v \in 1..NumValidators |->
                          IF v = NumValidators /\ status = "pending" THEN 2 ELSE 0],
                      [v \in 1..NumValidators |->
                          IF v = NumValidators /\ status = "exited" THEN 1 ELSE far])
              known == IF status = "active" /\ hasDuty
                       THEN NumValidators ELSE NumValidators - 1
              dutyOf(v) == AttesterDuty(v, first + ds[v], IF v = 1 THEN c1 ELSE 0)
              bits(slot, committee) ==
                  {v \in voters \cap (1..known) :
                      dutyOf(v).Slot = slot /\ dutyOf(v).CommitteeIndex = committee}
              group(slot, committee) ==
                  IF bits(slot, committee) = {} THEN <<>>
                  ELSE <<Attestation1(slot, committee, bits(slot, committee), "A", 1, "A")>>
          IN  AtAttester(1, validators,
                  [SLOTS_PER_EPOCH |-> SlotsPerEpoch,
                   proposerDuties |-> NoDuties,
                   attesterDuties |-> [kind |-> "ok", Data |-> [v \in 1..known |-> dutyOf(v)]],
                   blocks |-> [b \in (first + 1)..(first + SlotsPerEpoch) |->
                                 Block(<<Attestation1(b - 1, 2, {1}, "A", 1, "A")>>
                                       \o group(b - 1, 0) \o group(b - 1, 1))],
                   headers |-> CanonicalChain(2 * SlotsPerEpoch - 1),
                   currentSlot |-> 3 * SlotsPerEpoch])

InitAttester ==
    \/ AtAttester(1, AllActive, FailingNode)
    \/ InitVotes
    \/ InitParticipation

SpecAttester == InitAttester /\ [][NextAttester]_vars

----------------------------------------------------------------------------
(* Specification of processAttesterDuties of epoch 1 of a chain with long
   epochs: one vote, included anywhere in the inclusion window *)

\* SLOTS_PER_EPOCH of the chain with long epochs
LongEpoch == 17

InitLongEpoch ==
    LET first == LongEpoch
    IN  \/ AtAttester(1, AllActive, FailingNode)
        \/ \E ds \in {0, 2}, b \in (first + 1)..(first + 2 * LongEpoch),
              root \in Roots, targetRoot \in Roots :
             AtAttester(1, AllActive,
                 [SLOTS_PER_EPOCH |-> LongEpoch,
                  proposerDuties |-> NoDuties,
                  attesterDuties |->
                      [kind |-> "ok",
                       Data |-> [v \in 1..NumValidators |->
                                   AttesterDuty(v, IF v = 1 THEN first + ds ELSE first, 0)]],
                  blocks |-> b :>
                      Block(<<Attestation1(first + ds, 0, {1}, root, 1, targetRoot)>>),
                  headers |-> CanonicalChain(first + 1),
                  currentSlot |-> 3 * LongEpoch])

SpecLongEpoch == InitLongEpoch /\ [][NextAttester]_vars

----------------------------------------------------------------------------
(* Specification of the inclusion window: processAttesterDuties of epoch 1
   at any current slot, the votes in one block inside or outside the window *)

\* Every validator has its duty at the first slot of the epoch; one block,
\* at the first slot of the epoch or later up to one slot past the first
\* slot of the next-but-one epoch, holds the votes of all validators or of
\* the first only; the query of the block of the slot after it may fail.
InitWindow ==
    LET first == SlotsPerEpoch
        past == first + 2 * SlotsPerEpoch + 1
    IN  \/ AtAttester(1, AllActive, FailingNode)
        \/ \E current \in 0..past, b \in first..past,
              bits \in {1..NumValidators, {1}}, later \in {"none", "error"} :
             AtAttester(1, AllActive,
                 [SLOTS_PER_EPOCH |-> SlotsPerEpoch,
                  proposerDuties |-> NoDuties,
                  attesterDuties |->
                      [kind |-> "ok",
                       Data |-> [v \in 1..NumValidators |-> AttesterDuty(v, first, 0)]],
                  blocks |-> (b :> Block(<<Attestation1(first, 0, bits, "A", 1, "A")>>))
                             @@ (IF later = "error" THEN (b + 1) :> QueryError ELSE <<>>),
                  headers |-> CanonicalChain(first),
                  currentSlot |-> current])

SpecWindow == InitWindow /\ [][NextAttester]_vars

----------------------------------------------------------------------------
(* Specification of chaintime: one call of a conversion *)

\* SECONDS_PER_SLOT of the chains is 1..MaxSlotSeconds
MaxSlotSeconds == 3
\* timestamps are up to TimeSpan seconds after second 0 and up to TimeSpan
\* seconds before or after second 2^24
TimeSpan == 12
\* slots converted are 0..MaxSlot
MaxSlot == 12

\* the call returns its result
Returned(call, result) ==
    /\ local' = [local EXCEPT !.call = call, !.result = result]
    /\ pc' = "returned"

\* the call ends in a run-time panic: integer divide by zero
Panicked(call) ==
    /\ local' = [local EXCEPT !.call = call]
    /\ pc' = "panic"

TimestampToSlotCall ==
    /\ pc = "chaintime"
    /\ Returned("TimestampToSlot", TimestampToSlot(local.timestamp))
    /\ UNCHANGED <<provider, summary, err, votes, headersCache>>

SlotToEpochCall ==
    /\ pc = "chaintime"
    /\ Returned("SlotToEpoch", SlotToEpoch(local.slot))
    /\ UNCHANGED <<provider, summary, err, votes, headersCache>>

\* uint64(s.SlotToEpoch(slot)) / s.epochsPerSyncCommitteePeriod
SlotToSyncCommitteePeriodCall ==
    /\ pc = "chaintime"
    /\ IF epochsPerSyncCommitteePeriod = 0
       THEN Panicked("SlotToSyncCommitteePeriod")
       ELSE Returned("SlotToSyncCommitteePeriod",
                     SlotToEpoch(local.slot) \div epochsPerSyncCommitteePeriod)
    /\ UNCHANGED <<provider, summary, err, votes, headersCache>>

\* uint64(s.CurrentEpoch()) / s.epochsPerSyncCommitteePeriod
CurrentSyncCommitteePeriodCall ==
    /\ pc = "chaintime"
    /\ IF epochsPerSyncCommitteePeriod = 0
       THEN Panicked("CurrentSyncCommitteePeriod")
       ELSE Returned("CurrentSyncCommitteePeriod",
                     CurrentEpoch \div epochsPerSyncCommitteePeriod)
    /\ UNCHANGED <<provider, summary, err, votes, headersCache>>

NextChainTime ==
    \/ TimestampToSlotCall
    \/ SlotToEpochCall
    \/ SlotToSyncCommitteePeriodCall
    \/ CurrentSyncCommitteePeriodCall

\* the value of a validatorSummary{} before EpochSummary fills it
ZeroSummary ==
    [Epoch |-> 0, Validators |-> <<>>, FirstSlot |-> 0, LastSlot |-> 0,
     ActiveValidators |-> 0, ParticipatingValidators |-> 0,
     NonParticipatingValidators |-> <<>>, IncorrectHeadValidators |-> <<>>,
     UntimelyHeadValidators |-> <<>>, UntimelySourceValidators |-> <<>>,
     IncorrectTargetValidators |-> <<>>, UntimelyTargetValidators |-> <<>>,
     Slots |-> <<>>, Proposals |-> <<>>]

\* the seconds of the timestamps converted
TimestampSeconds == (0..TimeSpan) \cup ((2^24 - TimeSpan)..(2^24 + TimeSpan))

\* A chain time built by NewChainTime, with or without
\* EPOCHS_PER_SYNC_COMMITTEE_PERIOD, and either a timestamp or a slot to
\* convert; the genesis is at second 2.
InitChainTime ==
    /\ \E seconds \in 1..MaxSlotSeconds, slots \in {SlotsPerEpoch, SlotsPerEpoch + 1},
          periods \in {0, 2}, slot \in 0..MaxSlot,
          sec \in TimestampSeconds, nsec \in {0, 1, 10^9 - 1} :
         /\ slot = 0 \/ (sec = 0 /\ nsec = 0)
         /\ provider = [SLOTS_PER_EPOCH |-> slots,
                        SECONDS_PER_SLOT |-> seconds,
                        EPOCHS_PER_SYNC_COMMITTEE_PERIOD |-> periods,
                        genesisTime |-> [sec |-> 2, nsec |-> 0],
                        currentSlot |-> slot]
         /\ local = [timestamp |-> [sec |-> sec, nsec |-> nsec], slot |-> slot,
                     call |-> "", result |-> 0]
    /\ summary = ZeroSummary
    /\ pc = "chaintime"
    /\ err = "nil"
    /\ votes = {}
    /\ headersCache = <<>>

SpecChainTime == InitChainTime /\ [][NextChainTime]_vars

----------------------------------------------------------------------------
(* Specification of the epoch resolution: the start of EpochSummary for an
   epoch descriptor and a current epoch *)

\* the current epoch is 0..MaxCurrentEpoch
MaxCurrentEpoch == 5

\* descriptors that name the current epoch or one relative to it
RelativeDescriptors ==
    {<<>>, <<"c", "u", "r", "r", "e", "n", "t">>, <<"h", "e", "a", "d">>,
     <<"-", "0">>, <<"l", "a", "s", "t">>,
     <<"-", "1">>, <<"-", "2">>, <<"-", "1", "0">>, <<"-", "0", "3">>}

\* descriptors that are integers without a minus sign, or minus zero
AbsoluteDescriptors ==
    {<<"0">>, <<"1">>, <<"7">>, <<"1", "0">>, <<"0", "7">>, <<"+", "2">>,
     <<"-", "0", "0">>}

\* descriptors that are neither keywords nor integers
OtherDescriptors ==
    {<<"x">>, <<"1", "x">>, <<"-">>, <<"1", "-">>, <<"-", "-", "1">>,
     <<" ", "1">>, <<"1", ".", "5">>, <<"L", "a", "s", "t">>, <<"-", "l", "a", "s", "t">>}

InitParseEpoch ==
    /\ \E epoch \in RelativeDescriptors \cup AbsoluteDescriptors \cup OtherDescriptors,
          current \in 0..((MaxCurrentEpoch + 1) * SlotsPerEpoch - 1) :
         /\ provider = [SLOTS_PER_EPOCH |-> SlotsPerEpoch, currentSlot |-> current]
         /\ local = [validatorsStr |-> <<>>, epoch |-> epoch]
    /\ summary = ZeroSummary
    /\ pc = "start"
    /\ err = "nil"
    /\ votes = {}
    /\ headersCache = <<>>

SpecParseEpoch == InitParseEpoch /\ [][ResolveEpoch]_vars

----------------------------------------------------------------------------
(* Specification of the validator selection: parseValidators for one or two
   selectors *)

\* the node knows validators of the indices 1..MaxIndex
MaxIndex == 7

\* selectors that are an index or a range with start <= end
GoodSelectors ==
    {<<"3">>, <<"6">>, <<"3", "-", "5">>, <<"5", "-", "7">>, <<"4", "-", "4">>}

\* ranges with other than two parts or with the start above the end
BadRanges ==
    {<<"7", "-", "5">>, <<"1", "-", "2", "-", "3">>, <<"5", "-", "-", "7">>}

\* selectors with a part that is no number
OtherSelectors == {<<"x">>, <<"-", "5">>, <<"5", "-">>, <<"3", "-", "x">>}

\* a validator active from epoch 0 on
KnownValidator(index) ==
    [Index |-> index, ActivationEpoch |-> 0, ExitEpoch |-> MaxEpoch + 3]

InitParseValidators ==
    /\ \E first \in GoodSelectors \cup BadRanges \cup OtherSelectors,
          second \in {<<>>} \cup GoodSelectors \cup BadRanges \cup OtherSelectors,
          unknown \in {0, 6}, kind \in {"ok", "error"} :
         /\ provider = [SLOTS_PER_EPOCH |-> SlotsPerEpoch,
                        currentSlot |-> 3 * SlotsPerEpoch,
                        validators |->
                            [kind |-> kind,
                             Data |-> [i \in (1..MaxIndex) \ {unknown} |-> KnownValidator(i)]]]
         /\ local = [validatorsStr |-> IF second = <<>> THEN <<first>> ELSE <<first, second>>,
                     epoch |-> <<"1">>]
         /\ summary = NewSummary(1, <<>>)
    /\ pc = "validators"
    /\ err = "nil"
    /\ votes = {}
    /\ headersCache = <<>>

SpecParseValidators == InitParseValidators /\ [][ParseValidators]_vars

----------------------------------------------------------------------------
(* Specification of EpochSummary as a whole, for epoch 1: one proposer duty
   and one vote, and any of the queries failing *)

InitSummary ==
    LET first == SlotsPerEpoch
    IN  /\ \E epoch \in {<<"1">>, <<"x">>},
              selectors \in {<<(<<"1", "-", "2">>)>>, <<(<<"x">>)>>},
              validatorsKind \in {"ok", "error"},
              proposerKind \in {"ok", "error"},
              attesterKind \in {"ok", "error"},
              proposed \in {NotFound, QueryError, Block(<<>>)},
              included \in {NotFound, QueryError,
                            Block(<<Attestation1(first, 0, {1}, "A", 1, "A")>>)},
              top \in {Header("A", TRUE), HeaderError} :
             /\ provider =
                   [SLOTS_PER_EPOCH |-> SlotsPerEpoch,
                    currentSlot |-> 3 * SlotsPerEpoch,
                    validators |->
                        [kind |-> validatorsKind,
                         Data |-> [i \in 1..NumValidators |-> KnownValidator(i)]],
                    proposerDuties |->
                        [kind |-> proposerKind,
                         Data |-> IF proposerKind = "ok"
                                  THEN <<[Slot |-> first, ValidatorIndex |-> 1]>>
                                  ELSE <<>>],
                    attesterDuties |->
                        [kind |-> attesterKind,
                         Data |-> IF attesterKind = "ok"
                                  THEN [v \in 1..2 |-> AttesterDuty(v, first, 0)]
                                  ELSE <<>>],
                    blocks |-> (first :> proposed) @@ ((first + 1) :> included),
                    headers |-> [CanonicalChain(first) EXCEPT ![first] = top]]
             /\ local = [validatorsStr |-> selectors, epoch |-> epoch]
        /\ summary = ZeroSummary
        /\ pc = "start"
        /\ err = "nil"
        /\ votes = {}
        /\ headersCache = <<>>

\* what EpochSummary returns when it has ended: no summary and the error,
\* or the summary and no error
EpochSummaryReturn ==
    IF pc = "failed"
    THEN [summary |-> <<>>, err |-> err]
    ELSE [summary |-> <<summary>>, err |-> "nil"]

NextSummary ==
    \/ ResolveEpoch
    \/ ParseValidators
    \/ NextProposer
    \/ NextAttester

SpecSummary == InitSummary /\ [][NextSummary]_vars

----------------------------------------------------------------------------
(* util.ToPubKey; a key is a string, the sequence of its characters *)

\* the length of a phase0.BLSPubKey
BLSPubKeyLength == 48

HexDigit ==
    Digit @@ ("a" :> 10) @@ ("b" :> 11) @@ ("c" :> 12) @@ ("d" :> 13) @@
    ("e" :> 14) @@ ("f" :> 15) @@ ("A" :> 10) @@ ("B" :> 11) @@ ("C" :> 12) @@
    ("D" :> 13) @@ ("E" :> 14) @@ ("F" :> 15)

\* hex.DecodeString of the characters after the first `skip`: the bytes
\* decoded before the first pair with a character that is no hex digit, or
\* before a single last character
DecodeString(str, skip) ==
    LET pairs == (Len(str) - skip) \div 2
        valid(j) == /\ str[skip + 2 * j - 1] \in DOMAIN HexDigit
                    /\ str[skip + 2 * j] \in DOMAIN HexDigit
        decoded == CHOOSE k \in 0..pairs :
                       /\ \A j \in 1..k : valid(j)
                       /\ k = pairs \/ ~valid(k + 1)
    IN  [failed |-> decoded < pairs \/ (Len(str) - skip) % 2 = 1,
         bytes |-> [j \in 1..decoded |->
                      16 * HexDigit[str[skip + 2 * j - 1]] + HexDigit[str[skip + 2 * j]]]]

\* hexutil.Decode: no bytes for an empty string or one without the 0x
\* prefix, else what hex.DecodeString gives for the rest
Decode(input) ==
    IF Len(input) < 2 \/ input[1] /= "0" \/ input[2] \notin {"x", "X"}
    THEN [failed |-> TRUE, bytes |-> <<>>]
    ELSE DecodeString(input, 2)

\* copy(k[:], pkey[:]): the number of bytes copied
CopyLength(pkey) == IF Len(pkey) < BLSPubKeyLength THEN Len(pkey) ELSE BLSPubKeyLength

\* ToPubKey: the error of hexutil.Decode is dropped
ToPubKey(key) ==
    LET pkey == Decode(key).bytes
    IN  IF CopyLength(pkey) /= 48
        THEN [err |-> "bad copy of public key", key |-> <<>>]
        ELSE [err |-> "nil", key |-> SubSeq(pkey, 1, CopyLength(pkey))]

ToPubKeyCall ==
    /\ pc = "util"
    /\ Returned("ToPubKey", ToPubKey(local.key))
    /\ UNCHANGED <<provider, summary, err, votes, headersCache>>

\* keys of 0..MaxKeyBytes bytes
MaxKeyBytes == 50

\* the hex digits of n bytes, the i-th byte being i
HexOf(n) ==
    [i \in 1..(2 * n) |->
        LET byte == (i + 1) \div 2
            nibble == IF i % 2 = 1 THEN (byte \div 16) % 16 ELSE byte % 16
        IN  CHOOSE c \in DOMAIN Digit \cup {"a", "b", "c", "d", "e", "f"} :
                HexDigit[c] = nibble]

\* the key strings: n bytes of hex digits after 0x or 0X, or such a string
\* without the prefix, with one more hex digit, or with characters that are
\* no hex digits before or after the bytes
KeyString(n, form) ==
    CASE form = "0x" -> <<"0", "x">> \o HexOf(n)
      [] form = "0X" -> <<"0", "X">> \o HexOf(n)
      [] form = "no prefix" -> HexOf(n)
      [] form = "odd" -> <<"0", "x">> \o HexOf(n) \o <<"a">>
      [] form = "bad tail" -> <<"0", "x">> \o HexOf(n) \o <<"z", "z">>
      [] form = "bad head" -> <<"0", "x", "z", "z">> \o HexOf(n)

KeyForms == {"0x", "0X", "no prefix", "odd", "bad tail", "bad head"}

InitToPubKey ==
    /\ \E n \in 0..MaxKeyBytes, form \in KeyForms :
         local = [key |-> KeyString(n, form), bytes |-> n, form |-> form,
                  call |-> "", result |-> 0]
    /\ provider = [SLOTS_PER_EPOCH |-> SlotsPerEpoch, currentSlot |-> 0]
    /\ summary = ZeroSummary
    /\ pc = "util"
    /\ err = "nil"
    /\ votes = {}
    /\ headersCache = <<>>

SpecToPubKey == InitToPubKey /\ [][ToPubKeyCall]_vars

----------------------------------------------------------------------------
(* Specification of the active validators: processAttesterDuties of epoch 1
   for validators of any activation and exit epoch *)

\* FAR_FUTURE_EPOCH, 2^64 - 1
FarFutureEpoch == 0 - 1

LifeEpochs == {0, 1, 2, FarFutureEpoch}

\* The node returns a duty, at the first slot of the epoch, for every
\* validator that is active; the block of the next slot holds the vote of
\* validator 1.
InitActive ==
    LET first == SlotsPerEpoch
    IN  \/ AtAttester(1, AllActive, FailingNode)
        \/ \E activation \in [1..NumValidators -> LifeEpochs],
              exit \in [1..NumValidators -> LifeEpochs] :
             LET validators == ValidatorRecords(activation, exit)
                 active == ActiveIndicesFrom(validators, 1, 1)
             IN  AtAttester(1, validators,
                     [SLOTS_PER_EPOCH |-> SlotsPerEpoch,
                      proposerDuties |-> NoDuties,
                      attesterDuties |->
                          [kind |-> "ok",
                           Data |-> [k \in 1..Len(active) |-> AttesterDuty(active[k], first, 0)]],
                      blocks |-> (first + 1) :>
                          Block(<<Attestation1(first, 0, {1}, "A", 1, "A")>>),
                      headers |-> CanonicalChain(first),
                      currentSlot |-> 3 * SlotsPerEpoch])

SpecActive == InitActive /\ [][NextAttester]_vars

----------------------------------------------------------------------------
(* Specification of two calls of EpochSummary against one node *)

\* EpochSummary called again with the arguments of the call that has ended,
\* against the same answers of the node and at the same current slot; the
\* node's record keeps the arguments and what the ended call returned. The
\* votes and the header cache are locals of processAttesterDuties, which
\* makes them anew.
SecondCall ==
    /\ pc \in {"done", "failed"}
    /\ provider.earlier.returned = <<>>
    /\ provider' = [provider EXCEPT !.earlier.returned = <<EpochSummaryReturn>>]
    /\ local' = [validatorsStr |-> provider.earlier.validatorsStr,
                 epoch |-> provider.earlier.epoch]
    /\ summary' = ZeroSummary
    /\ pc' = "start"
    /\ err' = "nil"
    /\ UNCHANGED <<votes, headersCache>>

\* Epoch 1 of a chain whose validators all have a duty at a slot of the
\* epoch; a set of them votes, each in the block after its duty, for any
\* head and target; the first slot's proposer is validator 1 and its block
\* may be missing or fail, and so may the header of the first slot and
\* either duties query. The selectors name the validators as a range, one
\* by one in descending order, or not at all.
InitTwoRuns ==
    LET first == SlotsPerEpoch
    IN  \E selectors \in {<<(<<"1", "-", "2">>)>>, <<(<<"2">>), (<<"1">>)>>, <<(<<"x">>)>>},
           epoch \in {<<"1">>},
           top \in {Header("A", TRUE), NoHeader, HeaderError},
           failing \in {"none", "proposer", "attester"},
           ds \in [1..NumValidators -> 0..(SlotsPerEpoch - 1)],
           voters \in SUBSET (1..NumValidators),
           roots \in RootPairs,
           proposed \in {NotFound, QueryError} :
          LET dutyOf(v) == AttesterDuty(v, first + ds[v], 0)
              bits(slot) == {v \in voters : dutyOf(v).Slot = slot}
              group(slot) ==
                  IF bits(slot) = {} THEN <<>>
                  ELSE <<Attestation1(slot, 0, bits(slot), roots[1], 1, roots[2])>>
              answered(b) == IF b = first THEN proposed ELSE Block(group(b - 1))
          IN  /\ provider =
                    [SLOTS_PER_EPOCH |-> SlotsPerEpoch,
                     currentSlot |-> 3 * SlotsPerEpoch,
                     validators |->
                         [kind |-> "ok",
                          Data |-> [i \in 1..NumValidators |-> KnownValidator(i)]],
                     proposerDuties |->
                         IF failing = "proposer" THEN [kind |-> "error", Data |-> <<>>]
                         ELSE [kind |-> "ok",
                               Data |-> <<[Slot |-> first, ValidatorIndex |-> 1]>>],
                     attesterDuties |->
                         IF failing = "attester" THEN [kind |-> "error", Data |-> <<>>]
                         ELSE [kind |-> "ok",
                               Data |-> [v \in 1..NumValidators |-> dutyOf(v)]],
                     blocks |-> [b \in first..(first + SlotsPerEpoch) |-> answered(b)],
                     headers |-> [CanonicalChain(2 * SlotsPerEpoch - 1)
                                     EXCEPT ![first] = top],
                     earlier |-> [validatorsStr |-> selectors, epoch |-> epoch,
                                  returned |-> <<>>]]
              /\ local = [validatorsStr |-> selectors, epoch |-> epoch]
              /\ summary = ZeroSummary
              /\ pc = "start"
              /\ err = "nil"
              /\ votes = {}
              /\ headersCache = <<>>

NextTwoRuns ==
    \/ NextSummary
    \/ SecondCall

SpecTwoRuns == InitTwoRuns /\ [][NextTwoRuns]_vars

----------------------------------------------------------------------------
(* Specification of Summary: the epoch range of the validator commands *)

\* Summary(validatorsStr, stateID, start, end, numEpochs): the error
\* returned, and startEpoch and endEpoch as they are when it returns. The
\* epochs are uint64: endEpoch - n below 0 is a residue above every epoch.
Summary(start, end, numEpochs) ==
    LET failed(message) == [err |-> message, startEpoch |-> 0, endEpoch |-> 0]
        checked(startEpoch, endEpoch) ==
            [err |-> IF U64Gt(startEpoch, endEpoch)
                     THEN "the start epoch specified is greater than the end epoch specifed"
                     ELSE "nil",
             startEpoch |-> startEpoch, endEpoch |-> endEpoch]
        n == ParseUint(numEpochs)
    IN  IF start = <<>> /\ end = <<>> /\ numEpochs = <<>>
        THEN failed("at least one of start or end or numEpochs must be specified")
        ELSE IF start /= <<>> /\ end /= <<>> /\ numEpochs /= <<>>
        THEN failed("you can't specify all 3 of start and end and numEpochs")
        ELSE IF provider.init /= "nil"
        THEN failed(provider.init)
        ELSE IF start /= <<>> /\ numEpochs /= <<>>
        THEN IF ParseEpoch(start).failed THEN failed("failed to parse epoch")
             ELSE IF n.failed THEN failed("strconv.ParseUint: invalid syntax")
             ELSE checked(ParseEpoch(start).epoch, ParseEpoch(start).epoch + n.val)
        ELSE IF end /= <<>> /\ numEpochs /= <<>>
        THEN IF ParseEpoch(end).failed THEN failed("failed to parse epoch")
             ELSE IF n.failed THEN failed("strconv.ParseUint: invalid syntax")
             ELSE checked(ParseEpoch(end).epoch - n.val, ParseEpoch(end).epoch)
        ELSE IF start /= <<>> /\ end /= <<>>
        THEN IF ParseEpoch(start).failed THEN failed("failed to parse epoch")
             ELSE IF ParseEpoch(end).failed THEN failed("failed to parse epoch")
             ELSE checked(ParseEpoch(start).epoch, ParseEpoch(end).epoch)
        ELSE checked(0, 0)

\* the command's call of Summary with its Start, End and NumEpochs
SummaryCall ==
    /\ pc = "start"
    /\ LET result == Summary(local.start, local.end, local.numEpochs)
       IN  /\ local' = [local EXCEPT !.startEpoch = result.startEpoch,
                                     !.endEpoch = result.endEpoch]
           /\ err' = result.err
           /\ pc' = IF result.err = "nil" THEN "done" ELSE "failed"
    /\ UNCHANGED <<provider, summary, votes, headersCache>>

\* the values of the options Start, End and NumEpochs; an option left out
\* is the empty string
StartOptions == {<<>>, <<"0">>, <<"2">>, <<"4">>, <<"l", "a", "s", "t">>, <<"-", "1">>, <<"x">>}
EndOptions == {<<>>, <<"1">>, <<"3">>, <<"c", "u", "r", "r", "e", "n", "t">>, <<"-", "2">>, <<"x">>}
NumEpochsOptions == {<<>>, <<"0">>, <<"2">>, <<"7">>, <<"-", "1">>, <<"x">>}

InitRange ==
    /\ \E start \in StartOptions, end \in EndOptions, numEpochs \in NumEpochsOptions,
          current \in 0..MaxCurrentEpoch,
          init \in {"nil", "could not get chain time"} :
         /\ provider = [SLOTS_PER_EPOCH |-> SlotsPerEpoch,
                        currentSlot |-> current * SlotsPerEpoch,
                        init |-> init]
         /\ local = [start |-> start, end |-> end, numEpochs |-> numEpochs,
                     startEpoch |-> 0, endEpoch |-> 0]
    /\ summary = ZeroSummary
    /\ pc = "start"
    /\ err = "nil"
    /\ votes = {}
    /\ headersCache = <<>>

SpecRange == InitRange /\ [][SummaryCall]_vars

----------------------------------------------------------------------------
(* Specification of the range loop of parseValidators, step by step *)

\* the bounds of the range are within RangeEdge of 0 or of 2^64 - 1
RangeEdge == 3

\* the loop is followed until it has appended MaxAppended indices
MaxAppended == 5

\* one test of 'index <= high' of the loop over a range, with the append
\* and index++ after it, or the end of the loop; index is a uint64, and
\* index++ at 2^64 - 1 gives 0
RangeLoop ==
    /\ pc = "range"
    /\ Len(local.indices) < MaxAppended
    /\ IF U64Le(local.index, local.high)
       THEN /\ local' = [local EXCEPT !.indices = Append(@, local.index),
                                      !.index = @ + 1]
            /\ UNCHANGED pc
       ELSE /\ pc' = "done"
            /\ UNCHANGED local
    /\ UNCHANGED <<provider, summary, err, votes, headersCache>>

\* the values of low and high: near 0 and near 2^64 - 1
NearZero == 0..RangeEdge
NearMax == (0 - 1 - RangeEdge)..(0 - 1)

\* the loop is entered with low and high parsed, index at low; ranges from
\* near 0 to near 2^64 - 1 are left out
InitRangeLoop ==
    /\ \E low \in NearZero \cup NearMax, high \in NearZero \cup NearMax :
         /\ low \in NearZero => high \in NearZero
         /\ local = [low |-> low, high |-> high, index |-> low, indices |-> <<>>]
    /\ provider = [SLOTS_PER_EPOCH |-> SlotsPerEpoch, currentSlot |-> 0]
    /\ summary = ZeroSummary
    /\ pc = "range"
    /\ err = "nil"
    /\ votes = {}
    /\ headersCache = <<>>

SpecRangeLoop == InitRangeLoop /\ [][RangeLoop]_vars

----------------------------------------------------------------------------
(* Claims about processProposerDuties *)

RECURSIVE ProposalsFor(_, _)
\* one entry for every duty duties[i..] of a selected validator, in duty
\* order; the entry says whether the node has a block at the duty's slot
ProposalsFor(response, i) ==
    IF i > Len(response) THEN <<>>
    ELSE (IF response[i].ValidatorIndex \in validatorsByIndex
          THEN <<[Slot |-> response[i].Slot,
                  Proposer |-> response[i].ValidatorIndex,
                  Block |-> BlockAt(response[i].Slot).kind = "block"]>>
          ELSE <<>>) \o ProposalsFor(response, i + 1)

\* C1: when processProposerDuties returns no error, summary.Proposals holds
\* exactly one entry for every proposer duty of a selected validator, in
\* duty order; a not-found block makes the entry of that duty say "no
\* block" and the later duties are still recorded.
C1_ProposalsComplete ==
    (pc = "attester" /\ err = "nil")
        => summary.Proposals = ProposalsFor(provider.proposerDuties.Data, 1)

----------------------------------------------------------------------------
(* Claims about AttestationHeadCorrect and AttestationTargetCorrect *)

\* the node has a present and canonical header at the slot
CanonicalAt(slot) == HeaderAt(slot).kind = "header" /\ HeaderAt(slot).Canonical

\* the header at the highest slot from start down to 0 that is present and
\* canonical has the given root
NearestCanonicalHasRoot(start, root) ==
    \E s \in 0..start :
        /\ CanonicalAt(s)
        /\ \A t \in (s + 1)..start : ~CanonicalAt(t)
        /\ HeaderAt(s).Root = root

\* C2: the backward walks of AttestationHeadCorrect and
\* AttestationTargetCorrect never go below slot 0: the slot they are at is
\* never a slot above the one they started from (a wrapped counter).
C2_WalkStopsAtZero ==
    /\ pc = "head" => U64Le(local.walk, attestation.Data.Slot)
    /\ pc = "target" =>
          U64Le(local.walk, FirstSlotOfEpoch(attestation.Data.Target.Epoch))

\* C3: when AttestationHeadCorrect returns, its result says whether the
\* nearest present and canonical header at or before the attestation's slot
\* has the attestation's beacon block root; when AttestationTargetCorrect
\* returns, the same from the first slot of the target epoch for the target
\* root.
C3_JudgedByNearestCanonical ==
    [][/\ (pc = "head" /\ pc' = "target") =>
             local'.headCorrect =
                 NearestCanonicalHasRoot(attestation.Data.Slot,
                                         attestation.Data.BeaconBlockRoot)
       /\ (pc = "target" /\ pc' = "duty") =>
             local'.targetCorrect =
                 NearestCanonicalHasRoot(FirstSlotOfEpoch(attestation.Data.Target.Epoch),
                                         attestation.Data.Target.Root)]_vars

\* a head vote for the root of a non-canonical header at its own slot was
\* judged against a canonical header further down and found incorrect, and
\* the target walk has passed over an absent or non-canonical first slot
C3_Witness ==
    /\ pc = "duty"
    /\ local.duty = 2
    /\ HeaderAt(attestation.Data.Slot) = Header("B", FALSE)
    /\ attestation.Data.BeaconBlockRoot = "B"
    /\ ~local.headCorrect
    /\ ~CanonicalAt(FirstSlotOfEpoch(attestation.Data.Target.Epoch))
    /\ local.targetCorrect

----------------------------------------------------------------------------
(* Claims about the votes counted by processAttesterDutiesSlot *)

\* the inclusion window of the epoch
WindowSlots ==
    LET windowEnd == FirstSlotOfEpoch(summary.Epoch + 2)
    IN  (FirstSlotOfEpoch(summary.Epoch) + 1)..
            (IF windowEnd > provider.currentSlot THEN provider.currentSlot ELSE windowEnd)

\* the duty of validator v (every validator has at most one)
DutyOf(v) == CHOOSE d \in Range(duties) : d.ValidatorIndex = v

\* attestation k of the block at slot b holds the vote of validator v
Occurs(v, b, k) ==
    /\ BlockAt(b).kind = "block"
    /\ k \in 1..Len(BlockAt(b).Attestations)
    /\ LET att == BlockAt(b).Attestations[k]
       IN  /\ att.Data.Slot = DutyOf(v).Slot
           /\ att.Data.Index = DutyOf(v).CommitteeIndex
           /\ DutyOf(v).ValidatorCommitteeIndex \in att.AggregationBits

\* the vote of validator v occurs first in attestation k of the block at slot b
OccursFirst(v, b, k) ==
    /\ b \in WindowSlots
    /\ Occurs(v, b, k)
    /\ \A b2 \in WindowSlots :
          \A k2 \in 1..Len(BlockAt(b2).Attestations) :
              Occurs(v, b2, k2) => (b < b2 \/ (b = b2 /\ k <= k2))

\* f is the fault record of the first occurrence of the vote of its validator
IsFirstFault(f) ==
    \E b \in WindowSlots :
        \E k \in 1..Len(BlockAt(b).Attestations) :
            /\ OccursFirst(f.Validator, b, k)
            /\ f.AttestationData = BlockAt(b).Attestations[k].Data
            /\ f.InclusionDistance = b - DutyOf(f.Validator).Slot

\* every fault recorded in the summary
AllFaults ==
    Range(summary.IncorrectHeadValidators) \cup Range(summary.UntimelyHeadValidators)
        \cup Range(summary.UntimelySourceValidators)
        \cup Range(summary.IncorrectTargetValidators)
        \cup Range(summary.UntimelyTargetValidators)

\* the loop over the duties is at a validator whose bit is set in the
\* attestation and whose vote is counted already
AtLaterOccurrence ==
    /\ pc = "duty"
    /\ local.duty <= Len(dutiesBySlot(attestation.Data.Slot, attestation.Data.Index))
    /\ duty.ValidatorCommitteeIndex \in attestation.AggregationBits
    /\ duty.ValidatorIndex \in votes

\* C4: a validator's vote is counted once, at its first occurrence in the
\* inclusion window (earliest block, earliest attestation in it): the fault
\* record of a counted vote is that of the first occurrence, with inclusion
\* distance (earliest including slot - duty slot), and a later occurrence
\* changes neither the summary nor the vote set.
C4_FirstOccurrenceWins ==
    [][/\ votes' /= votes =>
             \E v \in votes' \ votes :
                 /\ votes' = votes \cup {v}
                 /\ local'.fault.Validator = v
                 /\ IsFirstFault(local'.fault)
                 /\ OccursFirst(v, local.slot, local.attestation)
       /\ AtLaterOccurrence => (summary' = summary /\ votes' = votes)
       /\ \A f \in AllFaults' : IsFirstFault(f)]_vars

\* a later occurrence of a counted vote, with other attestation data or in
\* a later block than the counted one, is being passed over
C4_Witness ==
    /\ AtLaterOccurrence
    /\ local.fault.Validator = duty.ValidatorIndex
    /\ \/ local.fault.AttestationData /= attestation.Data
       \/ local.fault.InclusionDistance /= local.slot - duty.Slot
    /\ summary.UntimelyHeadValidators /= <<>>

\* the step in which AttestationHeadCorrect returns and head and source of
\* the vote are classified
HeadClassified == pc = "head" /\ pc' = "target"

\* the step in which AttestationTargetCorrect returns and the target of the
\* vote is classified
TargetClassified == pc = "target" /\ pc' = "duty"

\* the bucket of the slot the vote being classified attests
Bucket(s) == s.Slots[attestation.Data.Slot - FirstSlotOfEpoch(s.Epoch) + 1].Attestations

\* C5: head classification of a counted vote with inclusion delay d >= 0:
\* head correct: CorrectHead + 1, TimelyHead + 1 iff d = 1, appended to
\* UntimelyHeadValidators iff d > 1; head incorrect: appended to
\* IncorrectHeadValidators, and to UntimelyHeadValidators iff d > 1, with
\* CorrectHead and TimelyHead unchanged.
C5_HeadClassification ==
    [][(HeadClassified /\ local.inclusionDelay >= 0) =>
          LET d == local.inclusionDelay
              untimely == IF d > 1
                          THEN Append(summary.UntimelyHeadValidators, local.fault)
                          ELSE summary.UntimelyHeadValidators
          IN  /\ summary'.UntimelyHeadValidators = untimely
              /\ IF local'.headCorrect
                 THEN /\ Bucket(summary').CorrectHead = Bucket(summary).CorrectHead + 1
                      /\ Bucket(summary').TimelyHead =
                            Bucket(summary).TimelyHead + (IF d = 1 THEN 1 ELSE 0)
                      /\ summary'.IncorrectHeadValidators = summary.IncorrectHeadValidators
                 ELSE /\ Bucket(summary').CorrectHead = Bucket(summary).CorrectHead
                      /\ Bucket(summary').TimelyHead = Bucket(summary).TimelyHead
                      /\ summary'.IncorrectHeadValidators =
                            Append(summary.IncorrectHeadValidators, local.fault)]_vars

\* C6: a vote whose including block is at a lower slot than its duty is not
\* counted: no vote with a negative inclusion delay is in the vote set and
\* every recorded InclusionDistance is >= 0.
C6_NoNegativeDelay ==
    /\ \A f \in AllFaults : f.InclusionDistance >= 0
    /\ pc \in {"head", "target"} =>
          (local.slot >= duty.Slot /\ local.fault.InclusionDistance >= 0)

\* C7: target classification of a counted vote with inclusion delay d (the
\* unsigned inclusionDelay of the code): target correct: CorrectTarget + 1,
\* TimelyTarget + 1 iff d <= 32, appended to UntimelyTargetValidators iff
\* d > 32; target incorrect: appended to IncorrectTargetValidators, and to
\* UntimelyTargetValidators iff d > 32.
C7_TargetClassification ==
    [][TargetClassified =>
          LET d == local.inclusionDelay
              late == d < 0 \/ d > 32
              untimely == IF late
                          THEN Append(summary.UntimelyTargetValidators, local.fault)
                          ELSE summary.UntimelyTargetValidators
          IN  /\ summary'.UntimelyTargetValidators = untimely
              /\ IF local'.targetCorrect
                 THEN /\ Bucket(summary').CorrectTarget = Bucket(summary).CorrectTarget + 1
                      /\ Bucket(summary').TimelyTarget =
                            Bucket(summary).TimelyTarget + (IF late THEN 0 ELSE 1)
                      /\ summary'.IncorrectTargetValidators =
                            summary.IncorrectTargetValidators
                 ELSE /\ Bucket(summary').CorrectTarget = Bucket(summary).CorrectTarget
                      /\ Bucket(summary').TimelyTarget = Bucket(summary).TimelyTarget
                      /\ summary'.IncorrectTargetValidators =
                            Append(summary.IncorrectTargetValidators, local.fault)]_vars

\* a vote with a correct target included 33 slots after its duty is in
\* UntimelyTargetValidators and counted in CorrectTarget but not TimelyTarget
C7_Witness ==
    /\ pc = "duty"
    /\ local.inclusionDelay = 33
    /\ local.targetCorrect
    /\ summary.UntimelyTargetValidators = <<local.fault>>
    /\ summary.IncorrectTargetValidators = <<>>
    /\ Bucket(summary).CorrectTarget = 1
    /\ Bucket(summary).TimelyTarget = 0

\* C8: source classification of a counted vote with inclusion delay d (the
\* unsigned inclusionDelay of the code): TimelySource + 1 iff d <= 5,
\* otherwise and only otherwise appended to UntimelySourceValidators,
\* whatever the head and target votes are.
C8_SourceClassification ==
    [][HeadClassified =>
          LET d == local.inclusionDelay
              late == d < 0 \/ d > 5
          IN  /\ Bucket(summary').TimelySource =
                    Bucket(summary).TimelySource + (IF late THEN 0 ELSE 1)
              /\ summary'.UntimelySourceValidators =
                    IF late THEN Append(summary.UntimelySourceValidators, local.fault)
                    ELSE summary.UntimelySourceValidators]_vars

\* a vote with correct head included 6 slots after its duty is an untimely
\* source, and a vote with incorrect head included 5 slots after is not
C8_Witness ==
    /\ pc = "target"
    /\ \/ /\ local.inclusionDelay = 6
          /\ local.headCorrect
          /\ local.fault \in Range(summary.UntimelySourceValidators)
          /\ Bucket(summary).TimelySource = 0
       \/ /\ local.inclusionDelay = 5
          /\ ~local.headCorrect
          /\ summary.UntimelySourceValidators = <<>>
          /\ Bucket(summary).TimelySource = 1

----------------------------------------------------------------------------
(* Claims about non-participation and the counts *)

\* the selected validators active in the epoch: activation <= epoch < exit
ActiveSet ==
    {summary.Validators[i].Index : i \in
        {j \in 1..Len(summary.Validators) :
            /\ summary.Validators[j].ActivationEpoch <= summary.Epoch
            /\ summary.Epoch < summary.Validators[j].ExitEpoch}}

\* the validators with a vote in a block of the inclusion window
Voters ==
    {v \in DutyValidators :
        \E b \in WindowSlots : \E k \in 1..Len(BlockAt(b).Attestations) : Occurs(v, b, k)}

\* the validators reported as non-participating
NonParticipants ==
    {summary.NonParticipatingValidators[i].Validator :
        i \in 1..Len(summary.NonParticipatingValidators)}

\* C9: after a successful summarization NonParticipatingValidators holds
\* exactly the active validators with an attester duty and no recorded
\* vote, each once with the slot and committee of its duty, ascending by
\* (slot, committee, validator index).
C9_NonParticipating ==
    pc = "done" =>
        LET np == summary.NonParticipatingValidators
        IN  /\ NonParticipants = (ActiveSet \cap DutyValidators) \ votes
            /\ Len(np) = Cardinality(NonParticipants)
            /\ \A i \in 1..Len(np) :
                  /\ np[i].Slot = DutyOf(np[i].Validator).Slot
                  /\ np[i].Committee = DutyOf(np[i].Validator).CommitteeIndex
            /\ \A i \in 1..Len(np) : \A j \in (i + 1)..Len(np) :
                  \/ np[i].Slot < np[j].Slot
                  \/ /\ np[i].Slot = np[j].Slot
                     /\ np[i].Committee < np[j].Committee
                  \/ /\ np[i].Slot = np[j].Slot
                     /\ np[i].Committee = np[j].Committee
                     /\ np[i].Validator < np[j].Validator

\* two validators without a vote are reported in another order than that of
\* their indices, and a validator that voted is not reported
C9_Witness ==
    /\ pc = "done"
    /\ Len(summary.NonParticipatingValidators) >= 2
    /\ summary.NonParticipatingValidators[1].Validator
          > summary.NonParticipatingValidators[2].Validator
    /\ summary.NonParticipatingValidators[1].Slot
          = summary.NonParticipatingValidators[2].Slot

\* C10: after a successful summarization ParticipatingValidators is the
\* number of duty validators with at least one vote in the inclusion
\* window, and the participating and the non-participating validators are
\* disjoint sets whose union is the set of active validators with a duty.
C10_Participation ==
    pc = "done" =>
        /\ summary.ParticipatingValidators = Cardinality(Voters)
        /\ votes = Voters
        /\ Voters \cap NonParticipants = {}
        /\ Voters \cup NonParticipants = ActiveSet \cap DutyValidators

\* one validator voted and another, active and with a duty, did not
C10_Witness ==
    /\ pc = "done"
    /\ summary.ParticipatingValidators = 1
    /\ NonParticipants /= {}
    /\ summary.ActiveValidators = summary.ParticipatingValidators + Len(summary.NonParticipatingValidators)

----------------------------------------------------------------------------
(* Claims about the inclusion window *)

\* the slot is in firstSlot(E)+1 .. min(firstSlot(E+2), currentSlot)
InWindow(slot) ==
    /\ FirstSlotOfEpoch(summary.Epoch) + 1 <= slot
    /\ slot <= FirstSlotOfEpoch(summary.Epoch + 2)
    /\ slot <= CurrentSlot

\* the step queries the node for the block of local.slot
BlockQueried == pc = "scan" /\ pc' /= "nonparticipating"

\* C11: the scan queries blocks and counts votes only at slots s with
\* firstSlot(E)+1 <= s <= min(firstSlot(E+2), currentSlot); when
\* currentSlot < firstSlot(E)+1 no vote is counted and every active
\* validator with a duty is reported as non-participating.
C11_ScanWithinWindow ==
    /\ [][BlockQueried => InWindow(local.slot)]_vars
    /\ [][votes' /= votes => InWindow(local.slot)]_vars
    /\ []((pc = "done" /\ CurrentSlot < FirstSlotOfEpoch(summary.Epoch) + 1)
            => /\ votes = {}
               /\ NonParticipants = ActiveSet \cap DutyValidators)

\* the node has a block with the votes at a slot after the first of the
\* epoch, the current slot is not after the first slot of the epoch, and
\* all validators are reported as non-participating
C11_Witness ==
    /\ pc = "done"
    /\ CurrentSlot < FirstSlotOfEpoch(summary.Epoch) + 1
    /\ \E b \in DOMAIN provider.blocks :
          /\ b > FirstSlotOfEpoch(summary.Epoch)
          /\ provider.blocks[b].kind = "block"
    /\ Len(summary.NonParticipatingValidators) = NumValidators

\* C12: once the vote set has the size of the active validator set no
\* block of a later slot of the window is queried.
C12_StopsWhenComplete ==
    [][(/\ pc = "scan"
        /\ votes /= {}
        /\ Cardinality(votes) = Len(local.activeValidatorIndices))
       => ~BlockQueried]_vars

----------------------------------------------------------------------------
(* Claims about chaintime *)

\* C16: for a timestamp t not before the genesis the slot of t starts at
\* or before t and the next slot starts after t; for a timestamp before
\* the genesis the slot is 0.
C16_SlotContainsTimestamp ==
    (pc = "returned" /\ local.call = "TimestampToSlot") =>
        IF Before(local.timestamp, genesisTime)
        THEN local.result = 0
        ELSE /\ ~Before(local.timestamp, StartOfSlot(local.result))
             /\ Before(local.timestamp, StartOfSlot(local.result + 1))

\* C17: a slot lies between the first and the last slot of its epoch, and
\* the summary of an epoch has LastSlot = LastSlotOfEpoch(epoch) and
\* slotsPerEpoch buckets, the i-th for slot FirstSlot + i.
C17_EpochContainsSlot ==
    (pc = "returned" /\ local.call = "SlotToEpoch") =>
        LET epoch == local.result
            s == NewSummary(epoch, <<>>)
        IN  /\ FirstSlotOfEpoch(epoch) <= local.slot
            /\ local.slot <= LastSlotOfEpoch(epoch)
            /\ s.FirstSlot = FirstSlotOfEpoch(epoch)
            /\ s.LastSlot = LastSlotOfEpoch(epoch)
            /\ Len(s.Slots) = slotsPerEpoch
            /\ \A i \in 1..Len(s.Slots) : s.Slots[i].Slot = s.FirstSlot + (i - 1)

\* the last slot of an epoch after the first has been converted
C17_Witness ==
    /\ pc = "returned"
    /\ local.call = "SlotToEpoch"
    /\ local.result >= 1
    /\ local.slot = LastSlotOfEpoch(local.result)

\* C18: a sync-committee period conversion of a chain time built without
\* EPOCHS_PER_SYNC_COMMITTEE_PERIOD ends with the error "missing spec
\* constant" and not with a fault.
C18_PeriodWithoutConstant ==
    (/\ pc /= "chaintime"
     /\ local.call \in {"SlotToSyncCommitteePeriod", "CurrentSyncCommitteePeriod"}
     /\ epochsPerSyncCommitteePeriod = 0)
        => (pc = "failed" /\ err = "missing spec constant")

----------------------------------------------------------------------------
(* Claims about ParseEpoch *)

\* the epoch descriptor was resolved to the epoch
ResolvedTo(epoch) == pc = "validators" /\ summary.Epoch = epoch

\* the negative integers written by the descriptors
NegativeLiteral ==
    (<<"-", "1">> :> (0 - 1)) @@ (<<"-", "2">> :> (0 - 2)) @@
    (<<"-", "1", "0">> :> (0 - 10)) @@ (<<"-", "0", "3">> :> (0 - 3))

\* the integers written by descriptors without a minus sign
NonNegativeLiteral ==
    (<<"0">> :> 0) @@ (<<"1">> :> 1) @@ (<<"7">> :> 7) @@ (<<"1", "0">> :> 10) @@
    (<<"0", "7">> :> 7)

\* C14: "", "current", "head" and "-0" resolve to the current epoch c;
\* "last" to c-1, or 0 when c = 0; a negative integer N to c+N when
\* c >= -N and to 0 otherwise; the result of a relative form is in 0..c.
C14_RelativeEpoch ==
    pc /= "start" =>
        LET c == CurrentEpoch
        IN  /\ local.epoch \in {<<>>, <<"c", "u", "r", "r", "e", "n", "t">>,
                                 <<"h", "e", "a", "d">>, <<"-", "0">>}
                  => ResolvedTo(c)
            /\ local.epoch = <<"l", "a", "s", "t">>
                  => ResolvedTo(IF c > 0 THEN c - 1 ELSE 0)
            /\ local.epoch \in DOMAIN NegativeLiteral
                  => ResolvedTo(IF c >= 0 - NegativeLiteral[local.epoch]
                                THEN c + NegativeLiteral[local.epoch] ELSE 0)
            /\ local.epoch \in RelativeDescriptors
                  => (pc = "validators" /\ 0 <= summary.Epoch /\ summary.Epoch <= c)

\* "-10" at current epoch 5 resolves to epoch 0
C14_Witness ==
    /\ local.epoch = <<"-", "1", "0">>
    /\ CurrentEpoch = 5
    /\ ResolvedTo(0)

\* C15: an integer without a minus sign resolves to itself whatever the
\* current epoch, "0" to epoch 0 while "-0" resolves to the current epoch;
\* a descriptor that is neither a keyword nor an integer gives an error
\* and no epoch.
C15_AbsoluteEpoch ==
    pc /= "start" =>
        /\ local.epoch \in DOMAIN NonNegativeLiteral
              => ResolvedTo(NonNegativeLiteral[local.epoch])
        /\ local.epoch = <<"-", "0">> => ResolvedTo(CurrentEpoch)
        /\ local.epoch \in OtherDescriptors
              => (pc = "failed" /\ err = "failed to parse epoch" /\ summary = ZeroSummary)

\* "7" at current epoch 2 resolves to epoch 7
C15_Witness ==
    /\ local.epoch = <<"7">>
    /\ CurrentEpoch = 2
    /\ ResolvedTo(7)

----------------------------------------------------------------------------
(* Claims about parseValidators *)

\* the indices named by the selectors that are an index or a range
NamedBy ==
    (<<"3">> :> {3}) @@ (<<"6">> :> {6}) @@ (<<"3", "-", "5">> :> {3, 4, 5}) @@
    (<<"5", "-", "7">> :> {5, 6, 7}) @@ (<<"4", "-", "4">> :> {4})

\* the indices named by the selector list
Named ==
    UNION {NamedBy[local.validatorsStr[i]] : i \in 1..Len(local.validatorsStr)}

\* C19: for selectors that are indices and ranges, the validators of the
\* summary are the records of the named indices that the node knows, one
\* for each, ascending by index.
C19_SelectedValidators ==
    (/\ pc /= "validators"
     /\ \A i \in 1..Len(local.validatorsStr) : local.validatorsStr[i] \in GoodSelectors
     /\ provider.validators.kind = "ok")
        => /\ pc = "proposer"
           /\ {summary.Validators[i].Index : i \in 1..Len(summary.Validators)}
                 = Named \cap DOMAIN provider.validators.Data
           /\ \A i \in 1..Len(summary.Validators) :
                 summary.Validators[i] = provider.validators.Data[summary.Validators[i].Index]
           /\ \A i \in 1..(Len(summary.Validators) - 1) :
                 summary.Validators[i].Index < summary.Validators[i + 1].Index

\* ["3-5", "5-7"] with validator 6 unknown to the node gives 3, 4, 5, 7
C19_Witness ==
    /\ pc = "proposer"
    /\ local.validatorsStr = <<(<<"3", "-", "5">>), (<<"5", "-", "7">>)>>
    /\ Len(summary.Validators) = 4
    /\ summary.Validators[4].Index = 7

\* C20: a selector list whose first selector is a range with other than
\* two parts or with the start above the end fails with an "invalid
\* range" error.
C20_InvalidRange ==
    (pc /= "validators" /\ local.validatorsStr[1] \in BadRanges)
        => (pc = "failed" /\ err = "invalid range")

----------------------------------------------------------------------------
(* Claims about the errors of EpochSummary *)

\* the step makes a query that the node fails with something other than
\* not-found
QueryFails ==
    \/ /\ pc = "validators"
       /\ IndicesFrom(local.validatorsStr, 1).err = "nil"
       /\ provider.validators.kind = "error"
    \/ /\ pc = "proposer"
       /\ provider.proposerDuties.kind = "error"
    \/ /\ pc = "proposer_loop"
       /\ local.dutyIndex <= Len(provider.proposerDuties.Data)
       /\ provider.proposerDuties.Data[local.dutyIndex].ValidatorIndex \in validatorsByIndex
       /\ BlockAt(provider.proposerDuties.Data[local.dutyIndex].Slot).kind = "error"
    \/ /\ pc = "attester"
       /\ provider.attesterDuties.kind = "error"
    \/ /\ pc = "scan"
       /\ InWindow(local.slot)
       /\ BlockAt(local.slot).kind = "error"
    \/ /\ pc \in {"head", "target"}
       /\ local.walk \notin DOMAIN headersCache
       /\ HeaderAt(local.walk).kind = "error"

\* C13: EpochSummary returns a summary and no error, or no summary and an
\* error; a step whose query fails with something other than not-found ends
\* the call with an error, and no step follows it.
C13_NoPartialSummary ==
    /\ []((pc \in {"done", "failed"})
            => ((EpochSummaryReturn.summary = <<>>) = (EpochSummaryReturn.err /= "nil")))
    /\ [][QueryFails => (pc' = "failed" /\ err' /= "nil")]_vars
    /\ [][pc /= "failed"]_vars

\* a header query failed after a proposal and a vote had been recorded
C13_Witness ==
    /\ pc = "failed"
    /\ summary.Proposals /= <<>>
    /\ votes /= {}
    /\ EpochSummaryReturn.summary = <<>>

----------------------------------------------------------------------------
(* Claims about util.ToPubKey *)

\* C21: ToPubKey fails for every key string that is no valid hex string of
\* exactly 48 bytes: for a shorter key, for a longer key, and for a string
\* that is not valid hex.
C21_BadKeyRejected ==
    (/\ pc = "returned"
     /\ local.call = "ToPubKey"
     /\ (local.form \notin {"0x", "0X"} \/ local.bytes /= 48))
        => local.result.err /= "nil"

----------------------------------------------------------------------------
(* Claims about the active validators *)

\* the selected validators with activationEpoch <= E < exitEpoch, the
\* epochs compared as unsigned numbers
ActiveInEpoch ==
    {summary.Validators[i].Index : i \in
        {j \in 1..Len(summary.Validators) :
            /\ U64Le(summary.Validators[j].ActivationEpoch, summary.Epoch)
            /\ U64Lt(summary.Epoch, summary.Validators[j].ExitEpoch)}}

\* C22: the active validator indices are those of the selected validators
\* with activationEpoch <= E < exitEpoch, ascending and without
\* duplicates; the attester duties are requested for this list, and
\* ActiveValidators is its length.
C22_ActiveValidators ==
    (pc \in {"scan", "attestation", "duty", "head", "target", "nonparticipating", "done"}) =>
        LET active == local.activeValidatorIndices
        IN  /\ Range(active) = ActiveInEpoch
            /\ \A i \in 1..(Len(active) - 1) : active[i] < active[i + 1]
            /\ AttesterDutiesOpts = [Epoch |-> summary.Epoch, Indices |-> active]
            /\ pc = "done" => summary.ActiveValidators = Cardinality(ActiveInEpoch)

\* one validator became active in the epoch and is counted, another left
\* in the epoch and is not
C22_Witness ==
    /\ pc = "done"
    /\ summary.ActiveValidators = 1
    /\ \E i \in 1..Len(summary.Validators) :
          /\ summary.Validators[i].ActivationEpoch = summary.Epoch
          /\ summary.Validators[i].ExitEpoch = FarFutureEpoch
    /\ \E i \in 1..Len(summary.Validators) : summary.Validators[i].ExitEpoch = summary.Epoch

----------------------------------------------------------------------------
(* Claims about repeated calls *)

\* the second call has ended
SecondEnded == pc \in {"done", "failed"} /\ provider.earlier.returned /= <<>>

\* C23: a second call of EpochSummary with the same selectors and epoch
\* descriptor, against the same answers of the node and the same current
\* slot, returns what the first call returned: the same error, or a summary
\* equal in every field and in the order of every list, in whatever order
\* either call visited the map of validators.
C23_Deterministic ==
    SecondEnded => EpochSummaryReturn = provider.earlier.returned[1]

\* both calls returned a summary of two validators or more with a validator
\* that did not vote and one that voted for another head
C23_Witness ==
    /\ SecondEnded
    /\ pc = "done"
    /\ provider.earlier.returned[1].err = "nil"
    /\ Len(summary.Validators) >= 2
    /\ summary.NonParticipatingValidators /= <<>>
    /\ summary.IncorrectHeadValidators /= <<>>

----------------------------------------------------------------------------
(* Claims about the header cache *)

\* C24: processAttesterDuties starts with an empty header cache, also in a
\* call that follows another; afterwards an entry of the cache never changes
\* or leaves, the only entry a step adds is the node's answer for the slot a
\* walk stands at, and after every walk step that did not fail the slot it
\* visited is resolved. So the header of a slot is asked for once in a run
\* and every later Fetch of the slot returns the entry kept.
C24_ResolvedOnce ==
    [][/\ (pc = "attester" /\ pc' = "scan") => headersCache' = <<>>
       /\ pc /= "attester" =>
            /\ \A s \in DOMAIN headersCache :
                  s \in DOMAIN headersCache' /\ headersCache'[s] = headersCache[s]
            /\ \A s \in DOMAIN headersCache' \ DOMAIN headersCache :
                  /\ pc \in {"head", "target"}
                  /\ s = local.walk
                  /\ headersCache'[s] = HeaderAt(s)
       /\ (pc \in {"head", "target"} /\ pc' /= "failed") =>
            local.walk \in DOMAIN headersCache']_vars

\* in a second call a walk stands at a slot that an earlier walk of this
\* call resolved as absent
C24_Witness ==
    /\ provider.earlier.returned /= <<>>
    /\ pc = "target"
    /\ local.walk \in DOMAIN headersCache
    /\ headersCache[local.walk].kind = "notfound"

----------------------------------------------------------------------------
(* Claims about blocks missing from the inclusion window *)

\* the scan is at a slot of the window whose block the node does not have
AtMissingBlock ==
    /\ pc = "scan"
    /\ U64Le(local.slot, local.lastSlot)
    /\ BlockAt(local.slot).kind = "notfound"

\* C25: at a slot of the window whose block is not found the scan goes on
\* to the next slot with no error, no vote and no change of the summary;
\* and when the summarization has ended without error every validator with
\* a vote in a block of the window is counted, whatever blocks are missing
\* before it.
C25_MissingBlockSkipped ==
    /\ [][AtMissingBlock =>
            /\ pc' = "scan"
            /\ local'.slot = local.slot + 1
            /\ UNCHANGED <<summary, votes, err>>]_vars
    /\ [](pc = "done" => Voters \subseteq votes)

\* a counted vote whose first occurrence is in a block after a slot of the
\* window without a block
C25_Witness ==
    /\ pc = "done"
    /\ \E v \in votes : \E b \in WindowSlots : \E k \in 1..Len(BlockAt(b).Attestations) :
          /\ OccursFirst(v, b, k)
          /\ \E missing \in WindowSlots :
                missing < b /\ BlockAt(missing).kind = "notfound"

----------------------------------------------------------------------------
(* Claims about active validators without a duty *)

\* C26: the computation of NonParticipatingValidators ends normally for
\* every set of active validators without a recorded vote, and reports only
\* validators for which the attester-duties query returned a duty.
C26_NoDutyNoFault ==
    [][pc = "nonparticipating" =>
          /\ pc' = "done"
          /\ \A i \in 1..Len(summary'.NonParticipatingValidators) :
                summary'.NonParticipatingValidators[i].Validator \in DutyValidators]_vars

----------------------------------------------------------------------------
(* Claims about the epoch range of Summary *)

\* C27: a call of Summary that returns no error has startEpoch <= endEpoch,
\* and when only start is given its endEpoch is the current epoch.
C27_EndDefaultsToCurrent ==
    pc = "done" =>
        /\ U64Le(local.startEpoch, local.endEpoch)
        /\ (local.start /= <<>> /\ local.end = <<>> /\ local.numEpochs = <<>>) =>
              local.endEpoch = CurrentEpoch

----------------------------------------------------------------------------
(* Claims about the counters of the slot buckets *)

\* processAttesterDuties has filled Expected and has not failed
AttesterRunning ==
    pc \in {"scan", "attestation", "duty", "head", "target", "nonparticipating", "done"}

\* no validator has two duties in the answer of the node
OneDutyEach ==
    \A i, j \in 1..Len(duties) :
        duties[i].ValidatorIndex = duties[j].ValidatorIndex => i = j

\* the counter of the given name, bucket by bucket
Counter(name) == [i \in 1..Len(summary.Slots) |-> summary.Slots[i].Attestations[name]]

RECURSIVE SumSeq(_)
SumSeq(seq) == IF seq = <<>> THEN 0 ELSE Head(seq) + SumSeq(Tail(seq))

\* C28: when no validator has two duties, in every bucket and at every
\* point of the scan TimelyHead <= CorrectHead <= Included <= Expected,
\* TimelyTarget <= CorrectTarget <= Included and TimelySource <= Included,
\* and the Expected counters add up to the number of duties returned.
C28_CounterOrder ==
    (AttesterRunning /\ OneDutyEach) =>
        /\ \A i \in 1..Len(summary.Slots) :
              LET a == summary.Slots[i].Attestations
              IN  /\ a.TimelyHead <= a.CorrectHead
                  /\ a.CorrectHead <= a.Included
                  /\ a.Included <= a.Expected
                  /\ a.TimelyTarget <= a.CorrectTarget
                  /\ a.CorrectTarget <= a.Included
                  /\ a.TimelySource <= a.Included
        /\ SumSeq(Counter("Expected")) = Len(duties)

\* the scan has ended with a bucket of two duties or more, all of them
\* included and one at least with a timely head
C28_Witness ==
    /\ pc = "done"
    /\ OneDutyEach
    /\ \E i \in 1..Len(summary.Slots) :
          LET a == summary.Slots[i].Attestations
          IN  a.Expected >= 2 /\ a.Included = a.Expected /\ a.TimelyHead >= 1

----------------------------------------------------------------------------
(* Claims about the conservation of votes *)

\* the validators of a fault list, in its order
FaultValidators(list) == [i \in 1..Len(list) |-> list[i].Validator]

\* no value occurs twice in the sequence
NoRepeat(seq) == \A i, j \in 1..Len(seq) : seq[i] = seq[j] => i = j

\* C29: when the summarization has ended without error the Included
\* counters add up to ParticipatingValidators; so do the CorrectHead
\* counters with the length of IncorrectHeadValidators, the TimelySource
\* counters with the length of UntimelySourceValidators, and the
\* CorrectTarget counters with the length of IncorrectTargetValidators; and
\* no validator is twice in one fault list.
C29_VoteConservation ==
    pc = "done" =>
        LET participating == summary.ParticipatingValidators
        IN  /\ SumSeq(Counter("Included")) = participating
            /\ SumSeq(Counter("CorrectHead")) + Len(summary.IncorrectHeadValidators)
                  = participating
            /\ SumSeq(Counter("TimelySource")) + Len(summary.UntimelySourceValidators)
                  = participating
            /\ SumSeq(Counter("CorrectTarget")) + Len(summary.IncorrectTargetValidators)
                  = participating
            /\ NoRepeat(FaultValidators(summary.IncorrectHeadValidators))
            /\ NoRepeat(FaultValidators(summary.UntimelyHeadValidators))
            /\ NoRepeat(FaultValidators(summary.UntimelySourceValidators))
            /\ NoRepeat(FaultValidators(summary.IncorrectTargetValidators))
            /\ NoRepeat(FaultValidators(summary.UntimelyTargetValidators))

\* the summarization has ended with a vote that is in two attestations of
\* the window, has an incorrect head and came late for the source
C29_Witness ==
    /\ pc = "done"
    /\ summary.ParticipatingValidators >= 1
    /\ summary.IncorrectHeadValidators /= <<>>
    /\ summary.UntimelySourceValidators /= <<>>
    /\ \E v \in votes : \E b1, b2 \in WindowSlots :
          \E k1 \in 1..Len(BlockAt(b1).Attestations), k2 \in 1..Len(BlockAt(b2).Attestations) :
              /\ Occurs(v, b1, k1)
              /\ Occurs(v, b2, k2)
              /\ <<b1, k1>> /= <<b2, k2>>

----------------------------------------------------------------------------
(* Claims about the range loop *)

\* max(0, B - A + 1) for bounds on the same side of the uint64 range, or
\* with A above B
RangeCount(low, high) == IF U64Gt(low, high) THEN 0 ELSE high - low + 1

\* C30: the loop over a range A-B never appends more than max(0, B - A + 1)
\* indices, has appended exactly that many when it ends, and never takes
\* its counter from 2^64 - 1 to 0.
C30_RangeLoopEnds ==
    /\ Len(local.indices) <= RangeCount(local.low, local.high)
    /\ pc = "done" => Len(local.indices) = RangeCount(local.low, local.high)
    /\ \A i \in 1..Len(local.indices) : U64Le(local.low, local.indices[i])

====
